---------------------------- MODULE Spec2Model ----------------------------
(***************************************************************************)
(* ChatReport (src/app.py): the conversation flow engine (make_flow,       *)
(* next_step_id, advance), the answer classifier (_yes) and the report and *)
(* alert generator (generate_report), as a state machine over the          *)
(* Streamlit session state.                                                *)
(*                                                                         *)
(* Strings are TLA+ strings; CharsOf spells a string as its characters so  *)
(* that lower(), strip(), the `in` substring test and int() are computed   *)
(* on characters as Python computes them.  A text made by concatenation    *)
(* (an f-string, str.replace) is the sequence of its pieces.  Emoji and    *)
(* markdown of the prompts and report lines are left out of the literals,  *)
(* and a prompt is given by its opening words.                             *)
(***************************************************************************)
EXTENDS Integers, Sequences, FiniteSets, TLC

VARIABLES
  messages,           \* st.session_state.messages: the transcript
  current_step,       \* st.session_state.current_step
  symptoms,           \* st.session_state.symptoms: the answer set (key -> answer)
  awaiting_input,     \* st.session_state.awaiting_input
  conversation_done,  \* st.session_state.conversation_done
  report,             \* st.session_state.report: None or the lines of the report
  selected_regions,   \* st.session_state.selected_regions
  error,              \* the exception the last handler raised ("" if none)
  clock,              \* the wall clock datetime.now() reads, in minutes
  op,                 \* the last operation run (history, for stating the claims)
  late,               \* advance calls made since the session completed (history)
  other               \* the session state of a second browser session

vars == <<messages, current_step, symptoms, awaiting_input, conversation_done,
          report, selected_regions, error, clock, op, late, other>>

-----------------------------------------------------------------------------
(* Bounds of the exploration *)

\* the clock takes the values 0..MaxClock
MaxClock == 1
\* advance calls made after completion by a direct caller
MaxLate == 2

-----------------------------------------------------------------------------
(* Python values *)

\* None, where a step id or an answer is expected
None == "<None>"
\* st.session_state.report before a report is stored (None); a report has lines
NoReport == <<>>
\* the marker a modelled function returns when the Python code raises ValueError
ValueError == "<ValueError>"

\* the characters of each string the model handles
CharsOf(a) ==
  CASE a = "Yes" -> <<"Y", "e", "s">>
    [] a = "No" -> <<"N", "o">>
    [] a = "A little" -> <<"A", " ", "l", "i", "t", "t", "l", "e">>
    [] a = "Constantly" -> <<"C", "o", "n", "s", "t", "a", "n", "t", "l", "y">>
    [] a = "Most of the day" -> <<"M", "o", "s", "t", " ", "o", "f", " ", "t", "h", "e", " ", "d", "a", "y">>
    [] a = "On and off" -> <<"O", "n", " ", "a", "n", "d", " ", "o", "f", "f">>
    [] a = "Only when swallowing" -> <<"O", "n", "l", "y", " ", "w", "h", "e", "n", " ", "s", "w", "a", "l", "l", "o", "w", "i", "n", "g">>
    [] a = "Only at night" -> <<"O", "n", "l", "y", " ", "a", "t", " ", "n", "i", "g", "h", "t">>
    [] a = "Yes, very dry" -> <<"Y", "e", "s", ",", " ", "v", "e", "r", "y", " ", "d", "r", "y">>
    [] a = "Somewhat dry" -> <<"S", "o", "m", "e", "w", "h", "a", "t", " ", "d", "r", "y">>
    [] a = "Not really" -> <<"N", "o", "t", " ", "r", "e", "a", "l", "l", "y">>
    [] a = "Not sure" -> <<"N", "o", "t", " ", "s", "u", "r", "e">>
    [] a = "Yes, very different" -> <<"Y", "e", "s", ",", " ", "v", "e", "r", "y", " ", "d", "i", "f", "f", "e", "r", "e", "n", "t">>
    [] a = "A little different" -> <<"A", " ", "l", "i", "t", "t", "l", "e", " ", "d", "i", "f", "f", "e", "r", "e", "n", "t">>
    [] a = "No change" -> <<"N", "o", " ", "c", "h", "a", "n", "g", "e">>
    [] a = "Yes, a lot" -> <<"Y", "e", "s", ",", " ", "a", " ", "l", "o", "t">>
    [] a = "Regular food" -> <<"R", "e", "g", "u", "l", "a", "r", " ", "f", "o", "o", "d">>
    [] a = "Soft foods only" -> <<"S", "o", "f", "t", " ", "f", "o", "o", "d", "s", " ", "o", "n", "l", "y">>
    [] a = "Pureed foods" -> <<"P", "u", "r", "e", "e", "d", " ", "f", "o", "o", "d", "s">>
    [] a = "Liquids only" -> <<"L", "i", "q", "u", "i", "d", "s", " ", "o", "n", "l", "y">>
    [] a = "Feeding tube only" -> <<"F", "e", "e", "d", "i", "n", "g", " ", "t", "u", "b", "e", " ", "o", "n", "l", "y">>
    [] a = "Yes, often" -> <<"Y", "e", "s", ",", " ", "o", "f", "t", "e", "n">>
    [] a = "Occasionally" -> <<"O", "c", "c", "a", "s", "i", "o", "n", "a", "l", "l", "y">>
    [] a = "Good" -> <<"G", "o", "o", "d">>
    [] a = "Reduced" -> <<"R", "e", "d", "u", "c", "e", "d">>
    [] a = "Very poor" -> <<"V", "e", "r", "y", " ", "p", "o", "o", "r">>
    [] a = "No appetite at all" -> <<"N", "o", " ", "a", "p", "p", "e", "t", "i", "t", "e", " ", "a", "t", " ", "a", "l", "l">>
    [] a = "Yes, lost weight" -> <<"Y", "e", "s", ",", " ", "l", "o", "s", "t", " ", "w", "e", "i", "g", "h", "t">>
    [] a = "Yes, gained weight" -> <<"Y", "e", "s", ",", " ", "g", "a", "i", "n", "e", "d", " ", "w", "e", "i", "g", "h", "t">>
    [] a = "Sometimes" -> <<"S", "o", "m", "e", "t", "i", "m", "e", "s">>
    [] a = "Good / Positive" -> <<"G", "o", "o", "d", " ", "/", " ", "P", "o", "s", "i", "t", "i", "v", "e">>
    [] a = "A bit down" -> <<"A", " ", "b", "i", "t", " ", "d", "o", "w", "n">>
    [] a = "Anxious or worried" -> <<"A", "n", "x", "i", "o", "u", "s", " ", "o", "r", " ", "w", "o", "r", "r", "i", "e", "d">>
    [] a = "Quite sad" -> <<"Q", "u", "i", "t", "e", " ", "s", "a", "d">>
    [] a = "Very distressed" -> <<"V", "e", "r", "y", " ", "d", "i", "s", "t", "r", "e", "s", "s", "e", "d">>
    [] a = "Sleeping well" -> <<"S", "l", "e", "e", "p", "i", "n", "g", " ", "w", "e", "l", "l">>
    [] a = "Some trouble sleeping" -> <<"S", "o", "m", "e", " ", "t", "r", "o", "u", "b", "l", "e", " ", "s", "l", "e", "e", "p", "i", "n", "g">>
    [] a = "Difficulty most nights" -> <<"D", "i", "f", "f", "i", "c", "u", "l", "t", "y", " ", "m", "o", "s", "t", " ", "n", "i", "g", "h", "t", "s">>
    [] a = "Can't sleep at all" -> <<"C", "a", "n", "'", "t", " ", "s", "l", "e", "e", "p", " ", "a", "t", " ", "a", "l", "l">>
    [] a = "Yes, I feel supported" -> <<"Y", "e", "s", ",", " ", "I", " ", "f", "e", "e", "l", " ", "s", "u", "p", "p", "o", "r", "t", "e", "d">>
    [] a = "Somewhat" -> <<"S", "o", "m", "e", "w", "h", "a", "t">>
    [] a = "No, I need more support" -> <<"N", "o", ",", " ", "I", " ", "n", "e", "e", "d", " ", "m", "o", "r", "e", " ", "s", "u", "p", "p", "o", "r", "t">>
    [] a = "Yes, noticeably" -> <<"Y", "e", "s", ",", " ", "n", "o", "t", "i", "c", "e", "a", "b", "l", "y">>
    [] a = "yes" -> <<"y", "e", "s">>
    [] a = "a little" -> <<"a", " ", "l", "i", "t", "t", "l", "e">>
    [] a = "somewhat" -> <<"s", "o", "m", "e", "w", "h", "a", "t">>
    [] a = "a lot" -> <<"a", " ", "l", "o", "t">>
    [] a = "often" -> <<"o", "f", "t", "e", "n">>
    [] a = "constantly" -> <<"c", "o", "n", "s", "t", "a", "n", "t", "l", "y">>
    [] a = "most" -> <<"m", "o", "s", "t">>
    [] a = "on and off" -> <<"o", "n", " ", "a", "n", "d", " ", "o", "f", "f">>
    [] a = "only" -> <<"o", "n", "l", "y">>
    [] a = "occasionally" -> <<"o", "c", "c", "a", "s", "i", "o", "n", "a", "l", "l", "y">>
    [] a = "noticeably" -> <<"n", "o", "t", "i", "c", "e", "a", "b", "l", "y">>
    [] a = "quite" -> <<"q", "u", "i", "t", "e">>
    [] a = "very" -> <<"v", "e", "r", "y">>
    [] a = "difficulty" -> <<"d", "i", "f", "f", "i", "c", "u", "l", "t", "y">>
    [] a = "trouble" -> <<"t", "r", "o", "u", "b", "l", "e">>
    [] a = "lost" -> <<"l", "o", "s", "t">>
    [] a = "tube" -> <<"t", "u", "b", "e">>
    [] a = "very distressed" -> <<"v", "e", "r", "y", " ", "d", "i", "s", "t", "r", "e", "s", "s", "e", "d">>
    [] a = "quite sad" -> <<"q", "u", "i", "t", "e", " ", "s", "a", "d">>
    [] a = "anxious" -> <<"a", "n", "x", "i", "o", "u", "s">>
    [] a = "a bit down" -> <<"a", " ", "b", "i", "t", " ", "d", "o", "w", "n">>
    [] a = "{name}" -> <<"{", "n", "a", "m", "e", "}">>
    [] a = "John" -> <<"J", "o", "h", "n">>
    [] a = "Not specified" -> <<"N", "o", "t", " ", "s", "p", "e", "c", "i", "f", "i", "e", "d">>
    [] a = "Jaw" -> <<"J", "a", "w">>
    [] a = "Jaw, Throat" -> <<"J", "a", "w", ",", " ", "T", "h", "r", "o", "a", "t">>
    [] a = "Throat" -> <<"T", "h", "r", "o", "a", "t">>
    [] a = "0" -> <<"0">>
    [] a = "1" -> <<"1">>
    [] a = "2" -> <<"2">>
    [] a = "3" -> <<"3">>
    [] a = "4" -> <<"4">>
    [] a = "5" -> <<"5">>
    [] a = "6" -> <<"6">>
    [] a = "7" -> <<"7">>
    [] a = "8" -> <<"8">>
    [] a = "9" -> <<"9">>
    [] a = "10" -> <<"1", "0">>
    [] a = "twelve" -> <<"t", "w", "e", "l", "v", "e">>
    [] a = "" -> <<>>
    [] a = "7/10" -> <<"7", "/", "1", "0">>
    [] a = "ibuprofen" -> <<"i", "b", "u", "p", "r", "o", "f", "e", "n">>
    [] a = "when walking" -> <<"w", "h", "e", "n", " ", "w", "a", "l", "k", "i", "n", "g">>
    [] a = "8 pounds in 2 weeks" -> <<"8", " ", "p", "o", "u", "n", "d", "s", " ", "i", "n", " ", "2", " ", "w", "e", "e", "k", "s">>
    [] a = "nothing else" -> <<"n", "o", "t", "h", "i", "n", "g", " ", "e", "l", "s", "e">>
    [] a = "liquid only" -> <<"l", "i", "q", "u", "i", "d", " ", "o", "n", "l", "y">>
    [] a = "lost 8 pounds in 2 weeks" -> <<"l", "o", "s", "t", " ", "8", " ", "p", "o", "u", "n", "d", "s", " ", "i", "n", " ", "2", " ", "w", "e", "e", "k", "s">>
    [] a = "  No  " -> <<" ", " ", "N", "o", " ", " ">>
    [] a = "Severe pain reported (" -> <<"S", "e", "v", "e", "r", "e", " ", "p", "a", "i", "n", " ", "r", "e", "p", "o", "r", "t", "e", "d", " ", "(">>
    [] a = "Moderate pain (" -> <<"M", "o", "d", "e", "r", "a", "t", "e", " ", "p", "a", "i", "n", " ", "(">>
    [] a = "Patient on liquids only or feeding tube - nutritional consult may be needed" -> <<"P", "a", "t", "i", "e", "n", "t", " ", "o", "n", " ", "l", "i", "q", "u", "i", "d", "s", " ", "o", "n", "l", "y", " ", "o", "r", " ", "f", "e", "e", "d", "i", "n", "g", " ", "t", "u", "b", "e", " ", "-", " ", "n", "u", "t", "r", "i", "t", "i", "o", "n", "a", "l", " ", "c", "o", "n", "s", "u", "l", "t", " ", "m", "a", "y", " ", "b", "e", " ", "n", "e", "e", "d", "e", "d">>
    [] a = "Weight loss reported: " -> <<"W", "e", "i", "g", "h", "t", " ", "l", "o", "s", "s", " ", "r", "e", "p", "o", "r", "t", "e", "d", ":", " ">>
    [] a = "Patient reports significant emotional distress - consider psychosocial referral" -> <<"P", "a", "t", "i", "e", "n", "t", " ", "r", "e", "p", "o", "r", "t", "s", " ", "s", "i", "g", "n", "i", "f", "i", "c", "a", "n", "t", " ", "e", "m", "o", "t", "i", "o", "n", "a", "l", " ", "d", "i", "s", "t", "r", "e", "s", "s", " ", "-", " ", "c", "o", "n", "s", "i", "d", "e", "r", " ", "p", "s", "y", "c", "h", "o", "s", "o", "c", "i", "a", "l", " ", "r", "e", "f", "e", "r", "r", "a", "l">>
    [] a = "Elevated anxiety/low mood - check in during appointment" -> <<"E", "l", "e", "v", "a", "t", "e", "d", " ", "a", "n", "x", "i", "e", "t", "y", "/", "l", "o", "w", " ", "m", "o", "o", "d", " ", "-", " ", "c", "h", "e", "c", "k", " ", "i", "n", " ", "d", "u", "r", "i", "n", "g", " ", "a", "p", "p", "o", "i", "n", "t", "m", "e", "n", "t">>
    [] a = "Breathing difficulties reported - assess for obstruction or infection" -> <<"B", "r", "e", "a", "t", "h", "i", "n", "g", " ", "d", "i", "f", "f", "i", "c", "u", "l", "t", "i", "e", "s", " ", "r", "e", "p", "o", "r", "t", "e", "d", " ", "-", " ", "a", "s", "s", "e", "s", "s", " ", "f", "o", "r", " ", "o", "b", "s", "t", "r", "u", "c", "t", "i", "o", "n", " ", "o", "r", " ", "i", "n", "f", "e", "c", "t", "i", "o", "n">>
    [] a = "fatigue" -> <<"f", "a", "t", "i", "g", "u", "e">>
    [] a = "pain" -> <<"p", "a", "i", "n">>
    [] a = "Unknown" -> <<"U", "n", "k", "n", "o", "w", "n">>
    [] a = "   " -> <<" ", " ", " ">>
    [] a = "No, not very often" -> <<"N", "o", ",", " ", "n", "o", "t", " ", "v", "e", "r", "y", " ", "o", "f", "t", "e", "n">>
    [] a = "  YES  " -> <<" ", " ", "Y", "E", "S", " ", " ">>
    [] a = "Yes please" -> <<"Y", "e", "s", " ", "p", "l", "e", "a", "s", "e">>
    [] a = "Nope" -> <<"N", "o", "p", "e">>

\* str.lower() on characters
UpperChars == <<"A","B","C","D","E","F","G","H","I","J","K","L","M",
                "N","O","P","Q","R","S","T","U","V","W","X","Y","Z">>
LowerChars == <<"a","b","c","d","e","f","g","h","i","j","k","l","m",
                "n","o","p","q","r","s","t","u","v","w","x","y","z">>
LowerChar(c) ==
  IF \E i \in 1..Len(UpperChars) : UpperChars[i] = c
  THEN LowerChars[CHOOSE i \in 1..Len(UpperChars) : UpperChars[i] = c]
  ELSE c
lower(cs) == [i \in 1..Len(cs) |-> LowerChar(cs[i])]

\* str.strip() on characters
IsSpace(c) == c \in {" ", "\t", "\n"}
strip(cs) ==
  LET keep == {i \in 1..Len(cs) : ~IsSpace(cs[i])}
  IN IF keep = {} THEN <<>>
     ELSE SubSeq(cs, CHOOSE i \in keep : \A j \in keep : i <= j,
                     CHOOSE i \in keep : \A j \in keep : j <= i)

\* `w in cs` for strings: w occurs in cs as a contiguous run
Contains(w, cs) ==
  \E i \in 0..(Len(cs) - Len(w)) : SubSeq(cs, i + 1, i + Len(w)) = w

\* `needle in text.lower()`, as generate_report and the conds write it
InLower(needle, text) == Contains(CharsOf(needle), lower(CharsOf(text)))

\* int(): the decimal digits, after strip(), with an optional sign
Digits == <<"0","1","2","3","4","5","6","7","8","9">>
IsDigit(c) == \E d \in 1..10 : Digits[d] = c
DigitVal(c) == (CHOOSE d \in 1..10 : Digits[d] = c) - 1
Unsigned(cs) == IF cs # <<>> /\ cs[1] \in {"+", "-"} THEN Tail(cs) ELSE cs
IsIntLiteral(cs) ==
  LET u == Unsigned(strip(cs))
  IN u # <<>> /\ \A i \in 1..Len(u) : IsDigit(u[i])
RECURSIVE DigitsVal(_)
DigitsVal(u) ==
  IF u = <<>> THEN 0
  ELSE 10 * DigitsVal(SubSeq(u, 1, Len(u) - 1)) + DigitVal(u[Len(u)])
IntVal(cs) ==
  LET t == strip(cs)
  IN IF t # <<>> /\ t[1] = "-" THEN 0 - DigitsVal(Unsigned(t))
     ELSE DigitsVal(Unsigned(t))

\* str(n) for the numbers a report prints
StrOfInt(n) ==
  CASE n = 0 -> "0" [] n = 1 -> "1" [] n = 2 -> "2" [] n = 3 -> "3"
    [] n = 4 -> "4" [] n = 5 -> "5" [] n = 6 -> "6" [] n = 7 -> "7"
    [] n = 8 -> "8" [] n = 9 -> "9" [] n = 10 -> "10"

\* dict.get(key, default)
Get(s, key, default) == IF key \in DOMAIN s THEN s[key] ELSE default
\* `x or y` on strings: the empty string and None are falsy
Truthy(x) == x # "" /\ x # None
OrElse(x, y) == IF Truthy(x) THEN x ELSE y

-----------------------------------------------------------------------------
(* _yes: the yes/no classifier *)

YesWords == <<"yes", "a little", "somewhat", "a lot", "often", "constantly",
              "most", "on and off", "only", "occasionally", "noticeably",
              "quite", "very", "difficulty", "trouble">>

\* a classifier in which a "no" anywhere in the text wins
_yes_nofirst(val) ==
  LET v == strip(lower(CharsOf(OrElse(val, ""))))
  IN /\ ~Contains(<<"n", "o">>, v)
     /\ \E i \in 1..Len(YesWords) : Contains(CharsOf(YesWords[i]), v)

_yes(val) ==
  LET v == strip(lower(CharsOf(OrElse(val, ""))))
  IN \E i \in 1..Len(YesWords) : Contains(CharsOf(YesWords[i]), v)

-----------------------------------------------------------------------------
(* make_flow: the ordered flow definition *)

\* one step; key = None when the step stores no answer, cond = "" when the
\* step has no cond, chips = <<>> when the step offers none
\* a flow whose steps all point back at themselves
Step_selfnext(id, type, msg, key, chips, cond, next) ==
  [id |-> id, type |-> type, msg |-> msg, key |-> key, chips |-> chips,
   cond |-> cond, next |-> id]

Step(id, type, msg, key, chips, cond, next) ==
  [id |-> id, type |-> type, msg |-> msg, key |-> key, chips |-> chips,
   cond |-> cond, next |-> next]

FLOW == <<
  Step("welcome", "info", <<"Hello! I'm ChatReport, a symptom-reporting assistant">>,
       None, <<>>, "", "name"),
  Step("name", "text", <<"To get started - what's your first name?">>,
       "patient_name", <<>>, "", "intro2"),
  Step("intro2", "info", <<"Nice to meet you, ", "{name}", "! Thank you for taking the time">>,
       None, <<>>, "", "pain_q1"),
  Step("pain_q1", "chips", <<"Pain. Have you had any pain since your last appointment?">>,
       "pain_present", <<"Yes", "No", "A little">>, "", "pain_body"),
  Step("pain_body", "body", <<"I'm sorry to hear that. Can you show me where">>,
       "pain_location", <<>>, "pain_present", "pain_severity"),
  Step("pain_severity", "scale", <<"On a scale of 0 to 10 - how would you rate your pain at its worst?">>,
       "pain_severity", <<>>, "pain_present", "pain_frequency"),
  Step("pain_frequency", "chips", <<"How often do you experience this pain?">>,
       "pain_frequency",
       <<"Constantly", "Most of the day", "On and off", "Only when swallowing", "Only at night">>,
       "pain_present", "pain_management"),
  Step("pain_management", "text", <<"Are you doing anything to manage the pain?">>,
       "pain_management", <<>>, "pain_present", "pain_impact"),
  Step("pain_impact", "text", <<"How much is the pain affecting your day-to-day life">>,
       "pain_impact", <<>>, "pain_present", "mouth_q1"),
  Step("mouth_q1", "chips", <<"Mouth Symptoms. Have you noticed any dryness, sores, or changes">>,
       "mouth_present", <<"Yes", "No", "A little">>, "", "mouth_dry"),
  Step("mouth_dry", "chips", <<"Is your mouth feeling very dry">>,
       "mouth_dry", <<"Yes, very dry", "Somewhat dry", "Not really">>,
       "mouth_present", "mouth_sores"),
  Step("mouth_sores", "chips", <<"Do you have any sores or ulcers inside your mouth?">>,
       "mouth_sores", <<"Yes", "No", "Not sure">>, "mouth_present", "mouth_taste"),
  Step("mouth_taste", "chips", <<"Have you noticed any changes in how food tastes?">>,
       "mouth_taste", <<"Yes, very different", "A little different", "No change">>,
       "mouth_present", "mouth_impact"),
  Step("mouth_impact", "text", <<"How much are these mouth symptoms affecting your ability to eat or drink?">>,
       "mouth_impact", <<>>, "mouth_present", "swallow_q1"),
  Step("swallow_q1", "chips", <<"Swallowing. Have you had any difficulty swallowing">>,
       "swallow_present", <<"Yes", "No", "A little">>, "", "swallow_pain"),
  Step("swallow_pain", "chips", <<"Does swallowing cause you pain?">>,
       "swallow_pain", <<"Yes, a lot", "A little", "No">>, "swallow_present", "swallow_diet"),
  Step("swallow_diet", "chips", <<"What types of food are you able to eat right now?">>,
       "swallow_diet",
       <<"Regular food", "Soft foods only", "Pureed foods", "Liquids only", "Feeding tube only">>,
       "swallow_present", "swallow_choking"),
  Step("swallow_choking", "chips", <<"Have you had any choking or coughing episodes">>,
       "swallow_choking", <<"Yes, often", "Occasionally", "No">>,
       "swallow_present", "nutrition_q1"),
  Step("nutrition_q1", "chips", <<"Nutrition & Appetite. How is your appetite lately?">>,
       "nutrition_appetite", <<"Good", "Reduced", "Very poor", "No appetite at all">>,
       "", "nutrition_weight"),
  Step("nutrition_weight", "chips", <<"Have you noticed any weight changes recently?">>,
       "nutrition_weight",
       <<"Yes, lost weight", "Yes, gained weight", "No change", "Not sure">>,
       "", "nutrition_weight_amt"),
  Step("nutrition_weight_amt", "text", <<"About how much weight have you lost, and over how long?">>,
       "nutrition_weight_amt", <<>>, "weight_lost", "nutrition_nausea"),
  Step("nutrition_nausea", "chips", <<"Have you experienced any nausea or vomiting?">>,
       "nutrition_nausea", <<"Yes, often", "Occasionally", "No">>, "", "nutrition_supplements"),
  Step("nutrition_supplements", "chips", <<"Are you using any nutritional supplements">>,
       "nutrition_supplements", <<"Yes", "No", "Sometimes">>, "", "breathing_q1"),
  Step("breathing_q1", "chips", <<"Breathing. Have you had any shortness of breath">>,
       "breathing_present", <<"Yes", "No", "A little">>, "", "breathing_detail"),
  Step("breathing_detail", "text", <<"Can you describe when it happens">>,
       "breathing_detail", <<>>, "breathing_present", "fatigue_q1"),
  Step("fatigue_q1", "scale", <<"Energy & Fatigue. On a scale of 0-10, how would you rate your fatigue">>,
       "fatigue_level", <<>>, "", "fatigue_impact"),
  Step("fatigue_impact", "text", <<"How is the fatigue affecting your daily activities">>,
       "fatigue_impact", <<>>, "fatigue_level", "mood_q1"),
  Step("mood_q1", "chips", <<"Emotional Wellbeing. How would you describe your mood lately?">>,
       "mood_general",
       <<"Good / Positive", "A bit down", "Anxious or worried", "Quite sad", "Very distressed">>,
       "", "mood_anxiety"),
  Step("mood_anxiety", "chips", <<"Have you been feeling worried or anxious">>,
       "mood_anxiety", <<"Yes, a lot", "Sometimes", "Not really">>, "", "mood_sleep"),
  Step("mood_sleep", "chips", <<"How has your sleep been?">>,
       "mood_sleep",
       <<"Sleeping well", "Some trouble sleeping", "Difficulty most nights", "Can't sleep at all">>,
       "", "mood_support"),
  Step("mood_support", "chips", <<"Do you feel you have enough support">>,
       "mood_support", <<"Yes, I feel supported", "Somewhat", "No, I need more support">>,
       "", "other_q1"),
  Step("other_q1", "chips", <<"Other Symptoms. Have you had any cough that's been bothersome?">>,
       "other_cough", <<"Yes", "No", "A little">>, "", "other_skin"),
  Step("other_skin", "chips", <<"Have you noticed any skin changes in the area being treated">>,
       "other_skin", <<"Yes", "No", "A little">>, "", "other_concentration"),
  Step("other_concentration", "chips", <<"Have you had difficulty concentrating or remembering things?">>,
       "other_concentration", <<"Yes, noticeably", "A little", "No">>, "", "closing_q1"),
  Step("closing_q1", "text", <<"We're almost done! Is there anything else you'd like your care team to know">>,
       "additional_notes", <<>>, "", "done"),
  Step("done", "info", <<"Thank you so much, ", "{name}", "! You've done a wonderful job">>,
       None, <<>>, "", None)
>>

\* the cond lambdas of make_flow.  A cond is named by the key it reads:
\* the presence conds are _yes(s.get(key, "")), the weight cond is
\* "lost" in s.get("nutrition_weight", "").lower(), and the fatigue cond is
\* int(s.get("fatigue_level", 0) or 0) >= 4, which raises ValueError when the
\* stored text is no integer literal.
FatigueThreshold == 4
CondRaises(step, s) ==
  /\ step.cond = "fatigue_level"
  /\ Truthy(Get(s, "fatigue_level", ""))
  /\ ~IsIntLiteral(CharsOf(s["fatigue_level"]))
\* conds whose weight test never holds
CondHolds_nolost(step, s) ==
  CASE step.cond = "" -> TRUE
    [] step.cond = "weight_lost" -> FALSE
    [] step.cond = "fatigue_level" ->
         (IF Truthy(Get(s, "fatigue_level", ""))
          THEN IntVal(CharsOf(s["fatigue_level"])) ELSE 0) >= FatigueThreshold
    [] OTHER -> _yes(Get(s, step.cond, ""))

\* conds whose fatigue test is strict
CondHolds_strict(step, s) ==
  CASE step.cond = "" -> TRUE
    [] step.cond = "weight_lost" -> InLower("lost", Get(s, "nutrition_weight", ""))
    [] step.cond = "fatigue_level" ->
         (IF Truthy(Get(s, "fatigue_level", ""))
          THEN IntVal(CharsOf(s["fatigue_level"])) ELSE 0) > FatigueThreshold
    [] OTHER -> _yes(Get(s, step.cond, ""))

CondHolds(step, s) ==
  CASE step.cond = "" -> TRUE
    [] step.cond = "weight_lost" -> InLower("lost", Get(s, "nutrition_weight", ""))
    [] step.cond = "fatigue_level" ->
         (IF Truthy(Get(s, "fatigue_level", ""))
          THEN IntVal(CharsOf(s["fatigue_level"])) ELSE 0) >= FatigueThreshold
    [] OTHER -> _yes(Get(s, step.cond, ""))

-----------------------------------------------------------------------------
(* get_step, next_step_id, total_steps *)

StepIds == {FLOW[i].id : i \in 1..Len(FLOW)}

\* ids.index(id): the first position holding the id
IndexTable ==
  [id \in StepIds |->
     CHOOSE i \in 1..Len(FLOW) : FLOW[i].id = id /\ \A j \in 1..(i-1) : FLOW[j].id # id]
IndexOf(id) == IndexTable[id]

get_step(id) == IF id \in StepIds THEN FLOW[IndexOf(id)] ELSE None

total_steps == Cardinality({i \in 1..Len(FLOW) : FLOW[i].type # "info"})

\* the while loop of next_step_id from position i: the id of the first step at
\* or after i whose cond is absent or true, None past the end of the flow,
\* ValueError when a cond evaluated on the way raises
RECURSIVE Walk(_, _)
Walk(i, s) ==
  IF i > Len(FLOW) THEN None
  ELSE IF CondRaises(FLOW[i], s) THEN ValueError
  ELSE IF CondHolds(FLOW[i], s) THEN FLOW[i].id
  ELSE Walk(i + 1, s)

\* a navigator that wraps around at the end of the flow instead of stopping
next_step_id_wrap(current_id, s) ==
  IF current_id \notin StepIds THEN None
  ELSE Walk((IndexOf(current_id) % Len(FLOW)) + 1, s)

\* a navigator that starts its walk one step too far
next_step_id_skip(current_id, s) ==
  IF current_id \notin StepIds THEN None ELSE Walk(IndexOf(current_id) + 2, s)

\* a navigator that takes the next step whatever its cond says
next_step_id_nocond(current_id, s) ==
  IF current_id \notin StepIds \/ IndexOf(current_id) = Len(FLOW) THEN None
  ELSE FLOW[IndexOf(current_id) + 1].id

next_step_id(current_id, s) ==
  IF current_id \notin StepIds THEN None ELSE Walk(IndexOf(current_id) + 1, s)

-----------------------------------------------------------------------------
(* generate_report: the report lines and the two alert lists *)

\* datetime.now().strftime("%B %d, %Y at %I:%M %p") at clock value c
TimeStr(c) ==
  CASE c = 0 -> "November 04, 2026 at 09:00 AM"
    [] c = 1 -> "November 04, 2026 at 09:01 AM"
    [] c = 2 -> "November 04, 2026 at 09:02 AM"
    [] OTHER -> "November 04, 2026 at 09:03 AM"

If(c, lines) == IF c THEN lines ELSE <<>>
Rule == <<"==============================================================">>
Dash == <<"--------------------------------------------------------------">>
Blank == <<"">>

\* a pain_sev that ignores the answer
pain_sev_zero(s) == 0

\* pain_sev = int(s.get("pain_severity", 0) or 0)
PainSevRaises(s) ==
  /\ Truthy(Get(s, "pain_severity", ""))
  /\ ~IsIntLiteral(CharsOf(s["pain_severity"]))
pain_sev(s) ==
  IF Truthy(Get(s, "pain_severity", "")) THEN IntVal(CharsOf(s["pain_severity"])) ELSE 0

SeverePain == 7
ModeratePain == 4

\* the moderate test written as an `if` of its own instead of an `elif`
moderate_pain_if(n) == n >= ModeratePain

\* `elif pain_sev >= 4`, reached when `pain_sev >= 7` is false
moderate_pain(n) == ~(n >= SeverePain) /\ n >= ModeratePain

SeverePainAlert == "Severe pain reported ("
ModeratePainAlert == "Moderate pain ("
NutritionAlert == "Patient on liquids only or feeding tube - nutritional consult may be needed"
WeightAlert == "Weight loss reported: "
DistressAlert == "Patient reports significant emotional distress - consider psychosocial referral"
LowMoodAlert == "Elevated anxiety/low mood - check in during appointment"
BreathingAlert == "Breathing difficulties reported - assess for obstruction or infection"

\* a diet test that looks for "tube" alone
diet_restricted_tube(diet) == InLower("tube", diet)

\* `"only" in diet.lower() or "tube" in diet.lower()`
diet_restricted(diet) == InLower("only", diet) \/ InLower("tube", diet)

\* a weight test that looks for "yes" instead of "lost"
weight_changed(weight) == InLower("yes", weight)

\* `"lost" in weight.lower()`
weight_lost(weight) == InLower("lost", weight)

\* a distress test that looks for "very distressed" alone
severe_mood_very(mood) == InLower("very distressed", mood)

\* `"very distressed" in mood or "quite sad" in mood`, mood lowered
severe_mood(mood) == InLower("very distressed", mood) \/ InLower("quite sad", mood)

\* `elif "anxious" in mood or "a bit down" in mood`
moderate_mood(mood) ==
  ~severe_mood(mood) /\ (InLower("anxious", mood) \/ InLower("a bit down", mood))

\* the alerts appended to high_alerts, in order; an alert is the pieces of its text
high_alerts(s) ==
  LET diet == OrElse(Get(s, "swallow_diet", None), "")
      mood == OrElse(Get(s, "mood_general", None), "")
      breathing == OrElse(Get(s, "breathing_present", None), "")
  IN If(pain_sev(s) >= SeverePain,
        << <<SeverePainAlert, StrOfInt(pain_sev(s)), "/10) - review pain management">> >>)
     \o If(diet_restricted(diet), << <<NutritionAlert>> >>)
     \o If(severe_mood(mood), << <<DistressAlert>> >>)
     \o If(_yes(breathing), << <<BreathingAlert>> >>)

\* the alerts appended to watch_alerts, in order
watch_alerts(s) ==
  LET weight == OrElse(Get(s, "nutrition_weight", None), "")
      mood == OrElse(Get(s, "mood_general", None), "")
  IN If(moderate_pain(pain_sev(s)),
        << <<ModeratePainAlert, StrOfInt(pain_sev(s)), "/10) - monitor closely">> >>)
     \o If(weight_lost(weight),
           << <<WeightAlert, Get(s, "nutrition_weight_amt", "amount not specified")>> >>)
     \o If(moderate_mood(mood), << <<LowMoodAlert>> >>)

\* the `checks` dict of generate_report, in insertion order
Checks == << <<"Pain", "pain_present">>, <<"Mouth symptoms", "mouth_present">>,
             <<"Swallowing difficulty", "swallow_present">>,
             <<"Breathing problems", "breathing_present">> >>

\* the loop over checks.items(): the labels whose answer is given and not positive
RECURSIVE NotPresentFrom(_, _)
NotPresentFrom(i, s) ==
  IF i > Len(Checks) THEN <<>>
  ELSE LET val == Get(s, Checks[i][2], "")
       IN If(Truthy(val) /\ ~_yes(val), <<Checks[i][1]>>) \o NotPresentFrom(i + 1, s)
\* a loop that starts at the second entry of checks
not_present_skipfirst(s) == NotPresentFrom(2, s)

not_present(s) == NotPresentFrom(1, s)

HighPrefix == "  HIGH PRIORITY: "
MonitorPrefix == "  MONITOR: "
NoAlertsLine == <<"  No critical alerts at this time.">>
NotReportedHeader == <<"SYMPTOMS NOT REPORTED">>
PresentHeader == <<"SYMPTOMS PRESENT">>
PainHeader == <<"  PAIN - PRESENT">>
MouthHeader == <<"  MOUTH SYMPTOMS - PRESENT">>
SwallowHeader == <<"  SWALLOWING DIFFICULTY - PRESENT">>
BreathingHeader == <<"  BREATHING DIFFICULTY - PRESENT">>
NutritionHeader == <<"NUTRITIONAL STATUS">>
FatigueHeader == <<"FATIGUE">>
MoodHeader == <<"EMOTIONAL WELLBEING">>
OtherHeader == <<"OTHER SYMPTOMS">>
NotesHeader == <<"ADDITIONAL NOTES (patient's words)">>
AlertsHeader == <<"  CLINICAL ALERTS">>

Prefixed(prefix, alerts) == [i \in 1..Len(alerts) |-> <<prefix>> \o alerts[i]]
Bulleted(labels) == [i \in 1..Len(labels) |-> <<"  * ", labels[i]>>]

\* the lines generate_report joins, in order, for the answers s at time now;
\* the call raises ValueError instead exactly when PainSevRaises(s)
generate_report(s, now) ==
  LET pain == _yes(Get(s, "pain_present", ""))
      mouth == _yes(Get(s, "mouth_present", ""))
      swallow == _yes(Get(s, "swallow_present", ""))
      breathing == _yes(Get(s, "breathing_present", ""))
      high == high_alerts(s)
      watch == watch_alerts(s)
      absent == not_present(s)
  IN << Rule, <<"  CHATREPORT SYMPTOM SUMMARY">>,
        <<"  Fox Chase Cancer Center x Temple University">>, Rule,
        <<"  Patient Name  : ", Get(s, "patient_name", "Unknown")>>,
        <<"  Report Date   : ", TimeStr(now)>>,
        <<"  Report Type   : Pre-Appointment Symptom Checkin">>, Rule, Blank,
        PresentHeader, Dash >>
     \o If(pain,
           << Blank, PainHeader,
              <<"    Location    : ", OrElse(Get(s, "pain_location", None), "Not specified")>>,
              <<"    Severity    : ", StrOfInt(pain_sev(s)), "/10">>
                \o If(pain_sev(s) >= SeverePain, <<"  HIGH">>),
              <<"    Frequency   : ", Get(s, "pain_frequency", "Not reported")>>,
              <<"    Management  : ", Get(s, "pain_management", "None reported")>>,
              <<"    Impact      : ", Get(s, "pain_impact", "Not described")>> >>)
     \o If(mouth,
           << Blank, MouthHeader,
              <<"    Dry Mouth   : ", Get(s, "mouth_dry", "Not specified")>>,
              <<"    Mouth Sores : ", Get(s, "mouth_sores", "Not specified")>>,
              <<"    Taste Change: ", Get(s, "mouth_taste", "Not specified")>>,
              <<"    Impact      : ", Get(s, "mouth_impact", "Not described")>> >>)
     \o If(swallow,
           << Blank, SwallowHeader,
              <<"    Pain w/ swallow: ", Get(s, "swallow_pain", "Not specified")>>,
              <<"    Diet level     : ", Get(s, "swallow_diet", "Not specified")>>,
              <<"    Choking/cough  : ", Get(s, "swallow_choking", "Not reported")>> >>)
     \o If(breathing,
           << Blank, BreathingHeader,
              <<"    Details: ", Get(s, "breathing_detail", "Not described")>> >>)
     \o If(~(pain \/ mouth \/ swallow \/ breathing),
           << <<"  (No major physical symptoms reported)">> >>)
     \o << Blank, Rule >>
     \o << Blank, NutritionHeader, Dash,
           <<"  Appetite      : ", Get(s, "nutrition_appetite", "Not reported")>>,
           <<"  Weight        : ", Get(s, "nutrition_weight", "Not reported")>> >>
     \o If(Truthy(Get(s, "nutrition_weight_amt", None)),
           << <<"  Weight amt    : ", Get(s, "nutrition_weight_amt", None)>> >>)
     \o << <<"  Nausea/Vomit  : ", Get(s, "nutrition_nausea", "Not reported")>>,
           <<"  Supplements   : ", Get(s, "nutrition_supplements", "Not reported")>> >>
     \o << Blank, FatigueHeader, Dash,
           <<"  Fatigue Level : ", Get(s, "fatigue_level", "Not rated"), "/10">> >>
     \o If(Truthy(Get(s, "fatigue_impact", None)),
           << <<"  Impact        : ", Get(s, "fatigue_impact", None)>> >>)
     \o << Blank, MoodHeader, Dash,
           <<"  General Mood  : ", Get(s, "mood_general", "Not reported")>>,
           <<"  Anxiety       : ", Get(s, "mood_anxiety", "Not reported")>>,
           <<"  Sleep         : ", Get(s, "mood_sleep", "Not reported")>>,
           <<"  Support       : ", Get(s, "mood_support", "Not reported")>> >>
     \o << Blank, OtherHeader, Dash,
           <<"  Cough         : ", Get(s, "other_cough", "Not reported")>>,
           <<"  Skin changes  : ", Get(s, "other_skin", "Not reported")>>,
           <<"  Concentration : ", Get(s, "other_concentration", "Not reported")>> >>
     \o If(Truthy(Get(s, "additional_notes", None)),
           << Blank, NotesHeader, Dash, <<"  ", Get(s, "additional_notes", None)>> >>)
     \o If(absent # <<>>, << Blank, NotReportedHeader, Dash >> \o Bulleted(absent))
     \o << Blank, Rule, AlertsHeader, Rule >>
     \o Prefixed(HighPrefix, high)
     \o Prefixed(MonitorPrefix, watch)
     \o If(high = <<>> /\ watch = <<>>, << NoAlertsLine >>)
     \o << Blank, Rule,
           <<"  This report was generated by ChatReport (Phase 1 prototype).">>,
           <<"  For clinical decisions, consult the treating physician.">>, Rule >>

-----------------------------------------------------------------------------
(* The session state and its handlers *)

EmptyDict == <<>>
Put(s, key, val) == [k \in DOMAIN s \cup {key} |-> IF k = key THEN val ELSE s[k]]

\* the `extra` of a message: None, "body_diagram", "pain_scale" or {"chips": [...]}
Extra(kind, chips) == [kind |-> kind, chips |-> chips]
NoExtra == Extra("none", <<>>)

\* a push_bot that leaves the placeholder in the text
Replace_none(text, name) == text

\* text.replace("{name}", name) on the pieces of a prompt
Replace(text, name) == [i \in 1..Len(text) |-> IF text[i] = "{name}" THEN name ELSE text[i]]

\* push_bot and push_user: the transcript with the message appended
\* (the display timestamp ts of a message is not modelled)
push_bot(msgs, s, text, extra) ==
  Append(msgs, [role |-> "bot", text |-> Replace(text, Get(s, "patient_name", "")),
                extra |-> extra])
push_user(msgs, text) ==
  Append(msgs, [role |-> "user", text |-> <<text>>, extra |-> NoExtra])

\* the session state a handler reads and writes
Session ==
  [messages |-> messages, current_step |-> current_step, symptoms |-> symptoms,
   awaiting_input |-> awaiting_input, conversation_done |-> conversation_done,
   report |-> report, error |-> ""]

\* init_state: the defaults of a fresh session
Defaults ==
  [messages |-> <<>>, current_step |-> "welcome", symptoms |-> EmptyDict,
   awaiting_input |-> FALSE, conversation_done |-> FALSE, report |-> NoReport,
   error |-> ""]

\* a `defaults` built once and handed to every session
defaults_shared(session) == "module"

\* the list and the dict init_state puts in a session's state: `defaults` is
\* built inside the function, so each session's call builds objects of its own
defaults_objects(session) == session

\* the state `peer` of session reader after a handler of session writer left
\* its state `new`: messages.append and symptoms[key] = ... write in place, and
\* show in every session that holds the same list and dict
InPlace(peer, reader, writer, new) ==
  IF defaults_objects(reader) = defaults_objects(writer)
  THEN [peer EXCEPT !.messages = new.messages, !.symptoms = new.symptoms]
  ELSE peer

\* an advance that attaches no widget to the prompt
extra_none(nstep) == NoExtra

\* the extra advance attaches to the prompt of the step it moves to
ExtraOf(nstep) ==
  CASE nstep.type = "body" -> Extra("body_diagram", <<>>)
    [] nstep.type = "scale" -> Extra("pain_scale", <<>>)
    [] nstep.type = "chips" -> Extra("chips", nstep.chips)
    [] OTHER -> NoExtra

\* the tail of advance: awaiting_input = True, unless an exception passed through
Awaiting(moved) ==
  IF moved.error # "" THEN moved ELSE [moved EXCEPT !.awaiting_input = TRUE]

\* storing that leaves the respondent's entry out of the transcript
store_answer_nopush(st, step, has, user_answer) ==
  IF has /\ Truthy(step.key)
  THEN [st EXCEPT !.symptoms = Put(@, step.key, user_answer)]
  ELSE st

\* storing that forgets to test the step's key
store_answer_nokey(st, step, has, user_answer) ==
  IF has
  THEN [st EXCEPT !.symptoms = Put(@, step.key, user_answer),
                  !.messages = push_user(@, user_answer)]
  ELSE st

\* storing that replaces the answer set by the one new answer
store_answer_fresh(st, step, has, user_answer) ==
  IF has /\ Truthy(step.key)
  THEN [st EXCEPT !.symptoms = Put(EmptyDict, step.key, user_answer),
                  !.messages = push_user(@, user_answer)]
  ELSE st

\* advance, "Store the user's answer for the current step":
\* has = FALSE is user_answer = None
store_answer(st, step, has, user_answer) ==
  IF has /\ Truthy(step.key)
  THEN [st EXCEPT !.symptoms = Put(@, step.key, user_answer),
                  !.messages = push_user(@, user_answer)]
  ELSE st

\* finishing that toggles the completion flag instead of setting it
finish_toggle(st, now) ==
  IF PainSevRaises(st.symptoms)
  THEN [st EXCEPT !.conversation_done = ~@, !.error = ValueError]
  ELSE [st EXCEPT !.conversation_done = ~@,
                  !.report = generate_report(st.symptoms, now)]

\* finishing that appends the new report to the one already stored
finish_append(st, now) ==
  IF PainSevRaises(st.symptoms)
  THEN [st EXCEPT !.conversation_done = TRUE, !.error = ValueError]
  ELSE [st EXCEPT !.conversation_done = TRUE,
                  !.report = @ \o generate_report(st.symptoms, now)]

\* advance, "Conversation finished": the flag is set, then generate_report runs
\* and may raise
finish(st, now) ==
  IF PainSevRaises(st.symptoms)
  THEN [st EXCEPT !.conversation_done = TRUE, !.error = ValueError]
  ELSE [st EXCEPT !.conversation_done = TRUE,
                  !.report = generate_report(st.symptoms, now)]

\* an advance that does not go on past an info step
advance_stop(st, has, user_answer, now) ==
  IF st.current_step \notin StepIds THEN st
  ELSE
    LET stored == store_answer(st, get_step(st.current_step), has, user_answer)
        nid == next_step_id(st.current_step, stored.symptoms)
        nstep == get_step(nid)
        pushed == [stored EXCEPT
                     !.current_step = nid,
                     !.messages = push_bot(@, stored.symptoms, nstep.msg, ExtraOf(nstep))]
    IN IF nid = ValueError THEN [stored EXCEPT !.error = ValueError]
       ELSE IF nid = None THEN finish(stored, now)
       ELSE Awaiting(pushed)

\* advance(user_answer).  An exception leaves the state as the statements run
\* before it made it.
RECURSIVE advance(_, _, _, _)
advance(st, has, user_answer, now) ==
  IF st.current_step \notin StepIds THEN st
  ELSE
    LET stored == store_answer(st, get_step(st.current_step), has, user_answer)
        nid == next_step_id(st.current_step, stored.symptoms)
        nstep == get_step(nid)
        pushed == [stored EXCEPT
                     !.current_step = nid,
                     !.messages = push_bot(@, stored.symptoms, nstep.msg, ExtraOf(nstep))]
    IN IF nid = ValueError THEN [stored EXCEPT !.error = ValueError]
       ELSE IF nid = None THEN finish(stored, now)
       ELSE IF nstep.type = "info" THEN Awaiting(advance(pushed, FALSE, None, now))
       ELSE Awaiting(pushed)

\* the kick-off block of the script: seed the welcome message and advance
kick_off(st, now) ==
  advance([st EXCEPT !.messages = push_bot(@, st.symptoms, get_step("welcome").msg, NoExtra),
                     !.current_step = "welcome"],
          FALSE, None, now)

\* the session variables after a handler left the state st
Becomes(st) ==
  \E new \in {st} :
    /\ messages' = new.messages
    /\ current_step' = new.current_step
    /\ symptoms' = new.symptoms
    /\ awaiting_input' = new.awaiting_input
    /\ conversation_done' = new.conversation_done
    /\ report' = new.report
    /\ error' = new.error
    /\ other' = InPlace(other, "peer", "main", new)

-----------------------------------------------------------------------------
(* What the widgets offer, and the part of it the exploration takes *)

\* the answers explored per key: for a chips step a subset of its chips, for a
\* scale step of the buttons 0..10, for a text step of the possible inputs
Explored ==
  [patient_name |-> {"John"},
   pain_present |-> {"Yes", "No"},
   pain_severity |-> {"3", "5", "8"},
   pain_frequency |-> {"On and off"},
   pain_management |-> {"ibuprofen"},
   pain_impact |-> {"ibuprofen"},
   mouth_present |-> {"Yes", "No"},
   mouth_dry |-> {"Somewhat dry"},
   mouth_sores |-> {"Not sure"},
   mouth_taste |-> {"No change"},
   mouth_impact |-> {"nothing else"},
   swallow_present |-> {"Yes", "No"},
   swallow_pain |-> {"No"},
   swallow_diet |-> {"Regular food", "Liquids only"},
   swallow_choking |-> {"Occasionally"},
   nutrition_appetite |-> {"Reduced"},
   nutrition_weight |-> {"Yes, lost weight", "No change"},
   nutrition_weight_amt |-> {"8 pounds in 2 weeks"},
   nutrition_nausea |-> {"No"},
   nutrition_supplements |-> {"Sometimes"},
   breathing_present |-> {"A little", "No"},
   breathing_detail |-> {"when walking"},
   fatigue_level |-> {"3", "4", "8"},
   fatigue_impact |-> {"nothing else"},
   mood_general |-> {"Good / Positive", "A bit down", "Quite sad"},
   mood_anxiety |-> {"Sometimes"},
   mood_sleep |-> {"Sleeping well"},
   mood_support |-> {"Somewhat"},
   other_cough |-> {"No"},
   other_skin |-> {"No"},
   other_concentration |-> {"A little"},
   additional_notes |-> {"nothing else"}]

\* the strings a text input can hold: the explored ones, padded or empty ones
KnownTexts == UNION {Explored[k] : k \in DOMAIN Explored} \cup {"", "  No  ", "No"}
\* the string whose characters are cs
StrOf(cs) == CHOOSE a \in KnownTexts : CharsOf(a) = cs
StripStr(a) == StrOf(strip(CharsOf(a)))

\* the pain scale buttons: range(0, 11)
ScaleMax == 10
ScaleButtons == {StrOfInt(n) : n \in 0..ScaleMax}
SeqToSet(q) == {q[i] : i \in 1..Len(q)}

\* the multiselect choices explored, among the REGION_LABELS values
RegionSelections == {<<>>, <<"Jaw">>, <<"Jaw", "Throat">>}
\* ", ".join(selected)
JoinRegions(sel) ==
  CASE sel = <<>> -> ""
    [] sel = <<"Jaw">> -> "Jaw"
    [] sel = <<"Jaw", "Throat">> -> "Jaw, Throat"

LastMessage == messages[Len(messages)]
\* render_bubble renders the extras of the last message only, when it is a bot
\* message with an extra and the conversation is not done
Interactive(kind) ==
  /\ messages # <<>>
  /\ LastMessage.role = "bot"
  /\ LastMessage.extra.kind = kind
  /\ ~conversation_done
CurrentKey == get_step(current_step).key

-----------------------------------------------------------------------------
(* The program: one action per script block or widget handler *)

Init ==
  /\ messages = Defaults.messages
  /\ current_step = Defaults.current_step
  /\ symptoms = Defaults.symptoms
  /\ awaiting_input = Defaults.awaiting_input
  /\ conversation_done = Defaults.conversation_done
  /\ report = Defaults.report
  /\ selected_regions = <<>>
  /\ error = ""
  /\ clock = 0
  /\ op = "init_state"
  /\ late = 0
  /\ other = Defaults

\* first load: `if not st.session_state.messages:` seeds the welcome message
\* and advances to the name question
KickOff ==
  /\ messages = <<>>
  /\ Becomes(kick_off(Session, clock))
  /\ op' = "kick_off"
  /\ UNCHANGED <<selected_regions, clock, late>>

\* the body diagram's multiselect
SelectRegions ==
  /\ Interactive("body_diagram")
  /\ \E sel \in RegionSelections :
       /\ sel # selected_regions
       /\ selected_regions' = sel
  /\ op' = "select"
  /\ UNCHANGED <<messages, current_step, symptoms, awaiting_input,
                 conversation_done, report, error, clock, late, other>>

\* "Confirm location": the joined selection, or "Not specified"
ConfirmBody ==
  /\ Interactive("body_diagram")
  /\ LET loc == IF selected_regions # <<>> THEN JoinRegions(selected_regions)
                ELSE "Not specified"
     IN Becomes(advance(Session, TRUE, loc, clock))
  /\ selected_regions' = <<>>
  /\ op' = "answer"
  /\ UNCHANGED <<clock, late>>

\* a button of the 0..10 scale: advance(str(n))
PickScale ==
  /\ Interactive("pain_scale")
  /\ CurrentKey \in DOMAIN Explored
  /\ \E n \in ScaleButtons \cap Explored[CurrentKey] :
       Becomes(advance(Session, TRUE, n, clock))
  /\ op' = "answer"
  /\ UNCHANGED <<selected_regions, clock, late>>

\* a quick-reply chip of the last message: advance(chip)
PickChip ==
  /\ Interactive("chips")
  /\ CurrentKey \in DOMAIN Explored
  /\ \E chip \in SeqToSet(LastMessage.extra.chips) \cap Explored[CurrentKey] :
       Becomes(advance(Session, TRUE, chip, clock))
  /\ op' = "answer"
  /\ UNCHANGED <<selected_regions, clock, late>>

\* the free-text input row, shown while the conversation is active and the
\* current step is a text step: advance(user_input.strip()) when not empty
SendText ==
  /\ ~conversation_done
  /\ current_step \in StepIds
  /\ get_step(current_step).type = "text"
  /\ CurrentKey \in DOMAIN Explored
  /\ \E user_input \in Explored[CurrentKey] \cup {""} :
       /\ strip(CharsOf(user_input)) # <<>>
       /\ Becomes(advance(Session, TRUE, StripStr(user_input), clock))
  /\ op' = "answer"
  /\ UNCHANGED <<selected_regions, clock, late>>

\* a reset that reruns the script without deleting the keys
Restarted_keep ==
  /\ Becomes(kick_off(Session, clock))
  /\ selected_regions' = <<>>
  /\ late' = 0
  /\ UNCHANGED clock

\* deleting every key of the session state and rerunning the script:
\* init_state sets the defaults and the kick-off block runs
Restarted ==
  /\ Becomes(kick_off(Defaults, clock))
  /\ selected_regions' = <<>>
  /\ late' = 0
  /\ UNCHANGED clock

\* the sidebar's "Start Over" button (rendered once the first run has kicked off)
StartOver ==
  /\ messages # <<>>
  /\ Restarted
  /\ op' = "start_over"

\* the "New Session" button, shown with the report
NewSession ==
  /\ conversation_done
  /\ Restarted
  /\ op' = "new_session"

\* time passes
Tick ==
  /\ clock < MaxClock
  /\ clock' = clock + 1
  /\ UNCHANGED <<messages, current_step, symptoms, awaiting_input,
                 conversation_done, report, selected_regions, error, op, late,
                 other>>

Answer == ConfirmBody \/ PickScale \/ PickChip \/ SendText

Next ==
  \/ KickOff
  \/ SelectRegions
  \/ ConfirmBody
  \/ PickScale
  \/ PickChip
  \/ SendText
  \/ StartOver
  \/ NewSession
  \/ Tick

Spec == Init /\ [][Next]_vars

-----------------------------------------------------------------------------
(* advance called directly, with raw values (the submit_answer boundary) *)

\* the raw values explored per key by a direct caller; "twelve" at the two
\* scale steps is a value no scale button produces, and "{name}" is a name
\* that spells the placeholder of the prompts
Raw ==
  [patient_name |-> {"John", "{name}"},
   pain_present |-> {"Yes", "No"},
   pain_location |-> {"Jaw"},
   pain_severity |-> {"8", "twelve"},
   pain_frequency |-> {"On and off"},
   pain_management |-> {"ibuprofen"},
   pain_impact |-> {"ibuprofen"},
   mouth_present |-> {"No"},
   swallow_present |-> {"No"},
   nutrition_appetite |-> {"Reduced"},
   nutrition_weight |-> {"Yes, lost weight", "No change"},
   nutrition_weight_amt |-> {"8 pounds in 2 weeks"},
   nutrition_nausea |-> {"No"},
   nutrition_supplements |-> {"Sometimes"},
   breathing_present |-> {"A little", "No"},
   breathing_detail |-> {"when walking"},
   fatigue_level |-> {"3", "4", "twelve"},
   fatigue_impact |-> {"nothing else"},
   mood_general |-> {"Good / Positive", "Quite sad"},
   mood_anxiety |-> {"Sometimes"},
   mood_sleep |-> {"Sleeping well"},
   mood_support |-> {"Somewhat"},
   other_cough |-> {"No"},
   other_skin |-> {"No"},
   other_concentration |-> {"A little"},
   additional_notes |-> {"nothing else"}]

\* the values a direct caller passes once the session is complete
LateAnswers == {"Yes", "twelve"}

\* advance(value) while the conversation is active; a caller whose call raised
\* makes no further call
Submit ==
  /\ messages # <<>>
  /\ ~conversation_done
  /\ error = ""
  /\ CurrentKey \in DOMAIN Raw
  /\ \E value \in Raw[CurrentKey] : Becomes(advance(Session, TRUE, value, clock))
  /\ op' = "answer"
  /\ UNCHANGED <<selected_regions, clock, late>>

\* advance(value) after the session completed
SubmitLate ==
  /\ conversation_done
  /\ error = ""
  /\ late < MaxLate
  /\ \E value \in LateAnswers : Becomes(advance(Session, TRUE, value, clock))
  /\ late' = late + 1
  /\ op' = "late_answer"
  /\ UNCHANGED <<selected_regions, clock>>

\* advance() after the session completed
AdvanceLate ==
  /\ conversation_done
  /\ error = ""
  /\ late < MaxLate
  /\ Becomes(advance(Session, FALSE, None, clock))
  /\ late' = late + 1
  /\ op' = "late_advance"
  /\ UNCHANGED <<selected_regions, clock>>

NextCall ==
  \/ KickOff
  \/ Submit
  \/ SubmitLate
  \/ AdvanceLate
  \/ StartOver
  \/ NewSession
  \/ Tick

SpecCall == Init /\ [][NextCall]_vars

-----------------------------------------------------------------------------
(* One session of a respondent who keeps answering: no Start Over, and the
   question presented is eventually answered *)

NextSession ==
  \/ KickOff
  \/ SelectRegions
  \/ ConfirmBody
  \/ PickScale
  \/ PickChip
  \/ SendText
  \/ Tick

\* a widget that takes an answer is on screen: the guards of the four
\* answering handlers (advance itself accepts every value)
Answerable ==
  \/ Interactive("body_diagram")
  \/ /\ Interactive("pain_scale")
     /\ CurrentKey \in DOMAIN Explored
     /\ ScaleButtons \cap Explored[CurrentKey] # {}
  \/ /\ Interactive("chips")
     /\ CurrentKey \in DOMAIN Explored
     /\ SeqToSet(LastMessage.extra.chips) \cap Explored[CurrentKey] # {}
  \/ /\ ~conversation_done
     /\ current_step \in StepIds
     /\ get_step(current_step).type = "text"
     /\ CurrentKey \in DOMAIN Explored
     /\ \E user_input \in Explored[CurrentKey] : strip(CharsOf(user_input)) # <<>>

\* weak fairness of Answer, with its enabling condition written out
AnswerFair == []<>(~Answerable) \/ []<><<Answer>>_vars

SpecSession ==
  Init /\ [][NextSession]_vars /\ WF_vars(KickOff) /\ AnswerFair

-----------------------------------------------------------------------------
(* generate_report as a function of the answer set: the terminal step of a
   session whose answers are drawn from what a session can collect *)

Merge(f, g) == [k \in DOMAIN f \cup DOMAIN g |-> IF k \in DOMAIN f THEN f[k] ELSE g[k]]

PainAnswers ==
  {[pain_present |-> "No"]}
    \cup {[pain_present |-> "Yes", pain_severity |-> StrOfInt(n)] : n \in 0..ScaleMax}
SwallowAnswers ==
  {[swallow_present |-> "No"]}
    \cup {[swallow_present |-> "Yes", swallow_diet |-> d] :
            d \in {"Regular food", "Soft foods only", "Pureed foods",
                   "Liquids only", "Feeding tube only"}}
WeightAnswers ==
  {[nutrition_weight |-> "Yes, lost weight", nutrition_weight_amt |-> "8 pounds in 2 weeks"]}
    \cup {[nutrition_weight |-> w] : w \in {"Yes, gained weight", "No change", "Not sure"}}
MoodAnswers ==
  {[mood_general |-> m] :
     m \in {"Good / Positive", "A bit down", "Anxious or worried", "Quite sad",
            "Very distressed"}}
BreathingAnswers == {[breathing_present |-> b] : b \in {"Yes", "No", "A little"}}
FatigueAnswers == {[fatigue_level |-> f] : f \in {"3", "8"}}

ReportInputs ==
  {Merge([patient_name |-> "John"],
         Merge(p, Merge(sw, Merge(w, Merge(m, Merge(b, f)))))) :
     p \in PainAnswers, sw \in SwallowAnswers, w \in WeightAnswers,
     m \in MoodAnswers, b \in BreathingAnswers, f \in FatigueAnswers}

\* the answer set of the end-to-end scenario, as given, and with an answer to
\* the swallowing presence question
Scenario ==
  [patient_name |-> "John", pain_present |-> "Yes", pain_severity |-> "8",
   mouth_present |-> "Yes", mouth_dry |-> "Yes", mouth_sores |-> "Yes",
   mouth_taste |-> "Yes", swallow_diet |-> "liquid only",
   nutrition_weight |-> "lost 8 pounds in 2 weeks", mood_general |-> "Quite sad"]
ScenarioInputs ==
  {Scenario} \cup {Merge([swallow_present |-> a], Scenario) : a \in {"Yes", "No"}}

InitReport ==
  /\ messages = <<>>
  /\ current_step = "done"
  /\ symptoms \in ReportInputs \cup ScenarioInputs
  /\ awaiting_input = FALSE
  /\ conversation_done = FALSE
  /\ report = NoReport
  /\ selected_regions = <<>>
  /\ error = ""
  /\ clock = 0
  /\ op = "init_state"
  /\ late = 0
  /\ other = Defaults

\* advance() at the terminal step: the report is generated from the answers
Finalize ==
  /\ current_step = "done"
  /\ late < MaxLate
  /\ Becomes(advance(Session, FALSE, None, clock))
  /\ late' = late + 1
  /\ op' = "finalize"
  /\ UNCHANGED <<selected_regions, clock>>

NextReport ==
  \/ Finalize
  \/ Tick

SpecReport == InitReport /\ [][NextReport]_vars

-----------------------------------------------------------------------------
(* Two browser sessions, each with a session state of its own, interleaved *)

\* the answer each session gives at a key: the two sessions answer differently
MainAnswer(key) == IF key \in {"pain_severity", "fatigue_level"} THEN "4" ELSE "A little"
PeerAnswer(key) == IF key \in {"pain_severity", "fatigue_level"} THEN "3" ELSE "No"

\* advance(value) in the first session
SubmitMain ==
  /\ messages # <<>>
  /\ ~conversation_done
  /\ CurrentKey # None
  /\ Becomes(advance(Session, TRUE, MainAnswer(CurrentKey), clock))
  /\ op' = "answer"
  /\ UNCHANGED <<selected_regions, clock, late>>

\* the variables after a handler of the second session left its state st
PeerBecomes(st) ==
  \E new \in {st} :
    /\ other' = new
    /\ messages' = InPlace(Session, "main", "peer", new).messages
    /\ symptoms' = InPlace(Session, "main", "peer", new).symptoms
    /\ UNCHANGED <<current_step, awaiting_input, conversation_done, report,
                   selected_regions, error, clock, late>>

\* the first run of the script in the second session
PeerKickOff ==
  /\ other.messages = <<>>
  /\ PeerBecomes(kick_off(other, clock))
  /\ op' = "peer_kick_off"

\* advance(value) in the second session
PeerSubmit ==
  /\ other.messages # <<>>
  /\ ~other.conversation_done
  /\ get_step(other.current_step).key # None
  /\ PeerBecomes(advance(other, TRUE, PeerAnswer(get_step(other.current_step).key), clock))
  /\ op' = "peer_answer"

\* "Start Over" or "New Session" in the second session
PeerReset ==
  /\ other.messages # <<>>
  /\ PeerBecomes(kick_off(Defaults, clock))
  /\ op' = "peer_reset"

NextTwo ==
  \/ KickOff
  \/ SubmitMain
  \/ StartOver
  \/ NewSession
  \/ PeerKickOff
  \/ PeerSubmit
  \/ PeerReset

SpecTwo == Init /\ [][NextTwo]_vars

-----------------------------------------------------------------------------
(* Vocabulary of the claims *)

Pos(id) == IndexOf(id)
Reset == op' \in {"start_over", "new_session"}
Has(key) == key \in DOMAIN symptoms
BotIndexes == {i \in 1..Len(messages) : messages[i].role = "bot"}
UserIndexes == {i \in 1..Len(messages) : messages[i].role = "user"}

-----------------------------------------------------------------------------
NoPromptTwice ==
  \A i, j \in BotIndexes : i # j => messages[i].text # messages[j].text

StepForward ==
  ~Reset => \/ current_step' = current_step
            \/ Pos(current_step') > Pos(current_step)

(* C1: within one session current_step only moves forward in flow order, so
   no step becomes the current step twice, and no prompt is pushed to the
   transcript twice. *)
C1_Monotone == [](NoPromptTwice) /\ [][StepForward]_vars

\* a session that went through the conditional pain steps to the terminal step
C1_Witness ==
  /\ conversation_done
  /\ current_step = "done"
  /\ Has("pain_severity")
  /\ Cardinality(BotIndexes) > Cardinality(UserIndexes)

-----------------------------------------------------------------------------
\* the pointer chain, bounded by the number of steps
RECURSIVE FollowNext(_, _, _)
FollowNext(id, s, fuel) ==
  LET nxt == get_step(id).next
  IN IF nxt = None \/ nxt \notin StepIds \/ fuel = 0 THEN None
     ELSE IF CondHolds(get_step(nxt), s) THEN nxt
     ELSE FollowNext(nxt, s, fuel - 1)

(* C2: next_step_id, which walks the flow list by position, returns for every
   step id and the answers of every reachable state the step that following
   the `next` pointers from that id reaches first among those whose cond is
   absent or true, and None exactly when the chain reaches next = None
   without finding one. *)
C2_NavigatorFollowsPointers ==
  \A id \in StepIds : next_step_id(id, symptoms) = FollowNext(id, symptoms, Len(FLOW))

\* the walk skipped the five pain follow-ups, and ends at None from "done"
C2_Witness ==
  /\ current_step = "mouth_q1"
  /\ Has("pain_present") /\ ~_yes(symptoms["pain_present"])
  /\ next_step_id("pain_q1", symptoms) = "mouth_q1"
  /\ FollowNext("pain_q1", symptoms, Len(FLOW)) = "mouth_q1"
  /\ next_step_id("done", symptoms) = None

-----------------------------------------------------------------------------
PresenceKeys == {"pain_present", "mouth_present", "swallow_present", "breathing_present"}
FollowUps(p) == {FLOW[i].key : i \in {j \in 1..Len(FLOW) : FLOW[j].cond = p}}
Positive(p) == Has(p) /\ _yes(symptoms[p])

(* C3: in every reachable state, a follow-up key of a presence-gated domain
   (pain, mouth, swallowing, breathing) is in the answer set only if the
   domain's presence answer is positive; a stored follow-up is never null or
   empty (a skipped step leaves its key absent); and at completion a positive
   presence answer comes with every follow-up key of its domain. *)
C3_GatedKeys ==
  \A p \in PresenceKeys :
    /\ \A k \in FollowUps(p) : Has(k) => Positive(p) /\ Truthy(symptoms[k])
    /\ conversation_done /\ Positive(p) => \A k \in FollowUps(p) : Has(k)

\* a completed session with the pain follow-ups asked and the mouth ones skipped
C3_Witness ==
  /\ conversation_done
  /\ Positive("pain_present")
  /\ FollowUps("pain_present") \subseteq DOMAIN symptoms
  /\ Has("mouth_present") /\ ~Positive("mouth_present")
  /\ FollowUps("mouth_present") \cap DOMAIN symptoms = {}

-----------------------------------------------------------------------------
StaysComplete ==
  conversation_done /\ ~Reset => conversation_done' /\ current_step' = current_step

(* C4: once conversation_done is true it stays true and current_step stays
   the terminal step "done" through every later advance call, with or without
   an answer, until Start Over / New Session. *)
C4_CompleteIsTerminal ==
  [](conversation_done => current_step = "done") /\ [][StaysComplete]_vars

\* two advance calls were made after completion, the last one with an answer
C4_Witness ==
  /\ conversation_done
  /\ late >= 2
  /\ op = "late_answer"

-----------------------------------------------------------------------------
LateAnswerIgnored ==
  op' = "late_answer" =>
    /\ symptoms' = symptoms
    /\ messages' = messages
    /\ current_step' = current_step
    /\ conversation_done' = conversation_done

(* C5: an answer submitted after the session completed changes neither the
   answer set, the transcript, the current step nor the completion flag. *)
C5_LateAnswerLeavesState == [][LateAnswerIgnored]_vars

\* an answer was submitted to a completed session
C5_Witness ==
  /\ op = "late_answer"
  /\ late >= 1
  /\ conversation_done
  /\ report # NoReport

-----------------------------------------------------------------------------
AnswersKept ==
  ~Reset => \A k \in DOMAIN symptoms : k \in DOMAIN symptoms' /\ symptoms'[k] = symptoms[k]

EmptiedOnlyByReset ==
  symptoms # EmptyDict /\ symptoms' = EmptyDict => Reset

(* C6: within a session the answer set only grows: a stored key is neither
   removed nor given another value by a later call, so the answer set becomes
   empty again only through Start Over / New Session. *)
C6_AnswersOnlyGrow == [][AnswersKept /\ EmptiedOnlyByReset]_vars

\* an answer was just stored on top of earlier ones
C6_Witness ==
  /\ op = "answer"
  /\ Cardinality(DOMAIN symptoms) >= 3
  /\ ~conversation_done

-----------------------------------------------------------------------------
InProgress == messages # <<>> /\ ~conversation_done

(* C7: a respondent who keeps answering the question presented reaches
   Complete from every in-progress state, whatever the answers, after at most
   as many answers as the flow has non-informational steps (33). *)
C7_AlwaysCompletes ==
  /\ [](total_steps = 33 /\ Cardinality(UserIndexes) <= total_steps)
  /\ (InProgress ~> conversation_done)

\* a session completed with every conditional question asked
C7_Witness ==
  /\ conversation_done
  /\ \A p \in PresenceKeys : Positive(p)
  /\ Has("nutrition_weight_amt") /\ Has("fatigue_impact")
  /\ Cardinality(UserIndexes) = total_steps

-----------------------------------------------------------------------------
ScaleKeys == {FLOW[i].key : i \in {j \in 1..Len(FLOW) : FLOW[j].type = "scale"}}
NonNumericStored ==
  \E k \in ScaleKeys : Has(k) /\ ~IsIntLiteral(CharsOf(symptoms[k]))

(* C8: submitting a non-numeric value at a severity-scale step (pain_severity
   or fatigue_q1) does not raise, the flow proceeds, and the session still
   completes with a report. *)
C8_NonNumericTolerated ==
  NonNumericStored =>
    /\ error = ""
    /\ conversation_done => report # NoReport

-----------------------------------------------------------------------------
PainFollowUps ==
  {"pain_location", "pain_severity", "pain_frequency", "pain_management", "pain_impact"}
LineIndexes(line) == {i \in 1..Len(report) : report[i] = line}
ListedNotReported(label) ==
  \E h \in LineIndexes(NotReportedHeader) :
    \E i \in LineIndexes(<<"  * ", label>>) : h < i

(* C9: when the pain-presence answer is negative, a completed session holds
   none of pain_location, pain_severity, pain_frequency, pain_management,
   pain_impact, and its report lists "Pain" under SYMPTOMS NOT REPORTED. *)
C9_NoPainNotReported ==
  conversation_done /\ Has("pain_present") /\ ~Positive("pain_present") =>
    /\ PainFollowUps \cap DOMAIN symptoms = {}
    /\ ListedNotReported("Pain")

\* a completed session whose pain answer was "No"
C9_Witness ==
  /\ conversation_done
  /\ Has("pain_present") /\ symptoms["pain_present"] = "No"
  /\ report # NoReport

-----------------------------------------------------------------------------
PainEntries(prefix) ==
  {i \in 1..Len(report) :
     /\ Len(report[i]) >= 2
     /\ report[i][1] = prefix
     /\ report[i][2] \in {SeverePainAlert, ModeratePainAlert}}
PainCounts(high, monitor) ==
  /\ Cardinality(PainEntries(HighPrefix)) = high
  /\ Cardinality(PainEntries(MonitorPrefix)) = monitor

(* C10: for every pain severity n in 0..10, a report has exactly one pain
   entry under HIGH PRIORITY and none under MONITOR when n >= 7, exactly one
   under MONITOR and none under HIGH PRIORITY when 4 <= n <= 6, and no pain
   entry in either list when n <= 3 or no severity was collected. *)
C10_PainAlertBySeverity ==
  report # NoReport =>
    /\ \A n \in 0..10 :
         Has("pain_severity") /\ symptoms["pain_severity"] = StrOfInt(n) =>
           /\ n >= 7 => PainCounts(1, 0)
           /\ n >= 4 /\ n <= 6 => PainCounts(0, 1)
           /\ n <= 3 => PainCounts(0, 0)
    /\ ~Has("pain_severity") => PainCounts(0, 0)

\* a report was generated for severity 7 and carries the severe-pain entry
C10_Witness ==
  /\ report # NoReport
  /\ Has("pain_severity") /\ symptoms["pain_severity"] = "7"
  /\ PainCounts(1, 0)

-----------------------------------------------------------------------------
(* Vocabulary of the alert claims *)

\* the report has a line of the list `prefix` whose alert text starts with `text`
HasEntry(prefix, text) ==
  \E i \in 1..Len(report) :
    /\ Len(report[i]) >= 2
    /\ report[i][1] = prefix
    /\ report[i][2] = text
Entries(prefix) == {i \in 1..Len(report) : report[i][1] = prefix}

-----------------------------------------------------------------------------
(* C11: whenever the swallowing-diet answer is "Liquids only" or "Feeding
   tube only", the HIGH PRIORITY list of the report holds the
   nutritional-consult entry. *)
C11_RestrictedDietConsult ==
  /\ report # NoReport
  /\ Has("swallow_diet")
  /\ symptoms["swallow_diet"] \in {"Liquids only", "Feeding tube only"}
  => HasEntry(HighPrefix, NutritionAlert)

\* a report for the diet "Liquids only", with the entry
C11_Witness ==
  /\ report # NoReport
  /\ Has("swallow_diet") /\ symptoms["swallow_diet"] = "Liquids only"
  /\ HasEntry(HighPrefix, NutritionAlert)

-----------------------------------------------------------------------------
\* the breathing answers carry neither a severe descriptor nor an oxygen flag
MildBreathing ==
  /\ Has("breathing_present") /\ symptoms["breathing_present"] = "A little"
  /\ Get(symptoms, "breathing_detail", None) \in {None, "when walking"}

(* C12: when breathing difficulty is present without a severe descriptor or
   an oxygen-need flag (the presence answer "A little"), the breathing alert
   is in the MONITOR list and not in the HIGH PRIORITY list. *)
C12_MildBreathingMonitored ==
  report # NoReport /\ MildBreathing =>
    /\ HasEntry(MonitorPrefix, BreathingAlert)
    /\ ~HasEntry(HighPrefix, BreathingAlert)

-----------------------------------------------------------------------------
\* the collected fatigue level, when it is a number
FatigueAtLeast(n) ==
  /\ Has("fatigue_level")
  /\ IsIntLiteral(CharsOf(symptoms["fatigue_level"]))
  /\ IntVal(CharsOf(symptoms["fatigue_level"])) >= n

(* C13: whenever the collected fatigue level is 8 or higher, the MONITOR list
   of the report holds an entry that speaks of fatigue. *)
C13_HighFatigueMonitored ==
  report # NoReport /\ FatigueAtLeast(8) =>
    \E i \in Entries(MonitorPrefix) : InLower("fatigue", report[i][2])

-----------------------------------------------------------------------------
MoodEntries(prefix) ==
  {i \in Entries(prefix) : report[i][2] \in {DistressAlert, LowMoodAlert}}
MoodCounts(high, monitor) ==
  /\ Cardinality(MoodEntries(HighPrefix)) = high
  /\ Cardinality(MoodEntries(MonitorPrefix)) = monitor

(* C14: for every mood answer the report has at most one mood alert: the
   psychosocial-referral entry under HIGH PRIORITY for "Quite sad" and "Very
   distressed", the low-mood entry under MONITOR and none under HIGH
   PRIORITY for "A bit down" and "Anxious or worried", and no mood entry in
   either list otherwise. *)
C14_MoodAlertByCategory ==
  report # NoReport =>
    LET mood == Get(symptoms, "mood_general", None)
    IN /\ mood \in {"Quite sad", "Very distressed"} =>
            MoodCounts(1, 0) /\ HasEntry(HighPrefix, DistressAlert)
       /\ mood \in {"A bit down", "Anxious or worried"} =>
            MoodCounts(0, 1) /\ HasEntry(MonitorPrefix, LowMoodAlert)
       /\ mood \notin {"Quite sad", "Very distressed", "A bit down", "Anxious or worried"} =>
            MoodCounts(0, 0)

\* a report for the mood "Quite sad", with the referral entry alone
C14_Witness ==
  /\ report # NoReport
  /\ Has("mood_general") /\ symptoms["mood_general"] = "Quite sad"
  /\ MoodCounts(1, 0)

-----------------------------------------------------------------------------
WeightEntries(prefix) == {i \in Entries(prefix) : report[i][2] = WeightAlert}

(* C15: the MONITOR list holds a weight-loss entry exactly when the
   weight-change answer contains "lost"; the entry carries the reported
   amount; and there is none for the answers "Yes, gained weight", "No
   change" and "Not sure". *)
C15_WeightLossMonitored ==
  report # NoReport =>
    LET weight == Get(symptoms, "nutrition_weight", "")
    IN /\ InLower("lost", weight) <=> WeightEntries(MonitorPrefix) # {}
       /\ weight = "Yes, lost weight" => Cardinality(WeightEntries(MonitorPrefix)) = 1
       /\ weight \in {"Yes, gained weight", "No change", "Not sure"} =>
            WeightEntries(MonitorPrefix) = {}
       /\ WeightEntries(HighPrefix) = {}
       /\ \A i \in WeightEntries(MonitorPrefix) :
            Has("nutrition_weight_amt") => report[i][3] = symptoms["nutrition_weight_amt"]

\* a report for "Yes, lost weight" whose entry carries the amount given
C15_Witness ==
  /\ report # NoReport
  /\ Has("nutrition_weight") /\ symptoms["nutrition_weight"] = "Yes, lost weight"
  /\ Has("nutrition_weight_amt")
  /\ \E i \in WeightEntries(MonitorPrefix) : report[i][3] = "8 pounds in 2 weeks"

-----------------------------------------------------------------------------
\* the report says outright that nothing was flagged
Placeholder == LineIndexes(NoAlertsLine) # {}

(* C16: for each alert list taken by itself, if the list is empty the report
   holds a "none flagged" statement, also when the other list has entries. *)
C16_PlaceholderPerList ==
  report # NoReport =>
    /\ Entries(HighPrefix) = {} => Placeholder
    /\ Entries(MonitorPrefix) = {} => Placeholder

-----------------------------------------------------------------------------
\* advance() ran again on a completed session whose answers did not change
Regenerated ==
  /\ report # NoReport
  /\ op' = "finalize" /\ late' = late + 1
  /\ symptoms' = symptoms
  /\ report' # NoReport

DateLabel == "  Report Date   : "
IsDateLine(line) == line[1] = DateLabel

\* the statement as the spec has it: the second report equals the first,
\* whenever the calls are made
C17_SameWhenever == [][Regenerated => report' = report]_vars

(* C17: generating the report twice from the same unchanged answer set gives
   the same lines except for the Report Date line, which holds the minute of
   the call; two calls in the same minute give identical reports. *)
C17_SameButDate ==
  [][Regenerated =>
       /\ Len(report') = Len(report)
       /\ \A i \in 1..Len(report) :
            IF IsDateLine(report[i])
            THEN report'[i] = <<DateLabel, TimeStr(clock)>>
            ELSE report'[i] = report[i]
       /\ (\E i \in 1..Len(report) : report[i] = <<DateLabel, TimeStr(clock)>>)
            => report' = report]_vars

\* a second report generated from the same answers, dated minute 1
C17_Witness ==
  /\ op = "finalize"
  /\ late = 2
  /\ clock = 1
  /\ report # NoReport
  /\ \E i \in 1..Len(report) : report[i] = <<DateLabel, TimeStr(1)>>

-----------------------------------------------------------------------------
\* the four presence domains: presence key, PRESENT block header, label in
\* the "not reported" list
Domains ==
  {[key |-> "pain_present", header |-> PainHeader, label |-> "Pain"],
   [key |-> "mouth_present", header |-> MouthHeader, label |-> "Mouth symptoms"],
   [key |-> "swallow_present", header |-> SwallowHeader, label |-> "Swallowing difficulty"],
   [key |-> "breathing_present", header |-> BreathingHeader, label |-> "Breathing problems"]}
Blocks(d) == LineIndexes(d.header)
Listings(d) == LineIndexes(<<"  * ", d.label>>)

(* C18: for each of the four presence domains whose presence question was
   answered, the report holds exactly one of the domain's PRESENT block (when
   the answer is positive) and the domain's label in the "not reported" list
   (when it is not): never both, never neither. *)
C18_PresentOrNotReported ==
  report # NoReport =>
    \A d \in Domains :
      Has(d.key) /\ Truthy(symptoms[d.key]) =>
        IF Positive(d.key)
        THEN Cardinality(Blocks(d)) = 1 /\ Listings(d) = {}
        ELSE Cardinality(Listings(d)) = 1 /\ Blocks(d) = {} /\ ListedNotReported(d.label)

\* a report with the pain block present and mouth symptoms listed as not reported
C18_Witness ==
  /\ conversation_done /\ report # NoReport
  /\ Positive("pain_present") /\ LineIndexes(PainHeader) # {}
  /\ Has("mouth_present") /\ ~Positive("mouth_present")
  /\ ListedNotReported("Mouth symptoms")
  /\ \A d \in Domains : Has(d.key)

-----------------------------------------------------------------------------
\* every line `a` of the report comes before every line `b`
Before(a, b) == \A i \in LineIndexes(a), j \in LineIndexes(b) : i < j

(* C19: the sections a report renders come in the order header, PRESENT
   blocks, "not reported" list, nutrition and emotional-wellbeing summaries,
   additional notes, alerts; in particular the "not reported" list comes
   before the nutrition and emotional-wellbeing summaries. *)
C19_SectionOrder ==
  report # NoReport =>
    /\ Before(<<"  CHATREPORT SYMPTOM SUMMARY">>, PresentHeader)
    /\ \A d \in Domains : Before(PresentHeader, d.header) /\ Before(d.header, NotReportedHeader)
    /\ Before(PresentHeader, NotReportedHeader)
    /\ Before(NotReportedHeader, NutritionHeader)
    /\ Before(NotReportedHeader, MoodHeader)
    /\ Before(NutritionHeader, MoodHeader)
    /\ Before(MoodHeader, NotesHeader)
    /\ Before(NotesHeader, AlertsHeader)
    /\ Before(MoodHeader, AlertsHeader)

-----------------------------------------------------------------------------
\* the answers hold every answer of the scenario
ScenarioAnswered ==
  \A k \in DOMAIN Scenario : Has(k) /\ symptoms[k] = Scenario[k]

HasLine(line) == LineIndexes(line) # {}

\* what the scenario expects of the report
ScenarioReport ==
  /\ HasLine(PainHeader)
  /\ \E i \in 1..Len(report) :
       /\ Len(report[i]) >= 3
       /\ report[i][1] = "    Severity    : " /\ report[i][2] = "8" /\ report[i][3] = "/10"
  /\ HasLine(MouthHeader)
  /\ HasLine(SwallowHeader)
  /\ HasLine(<<"    Diet level     : ", "liquid only">>)
  /\ HasEntry(HighPrefix, SeverePainAlert)
  /\ HasEntry(HighPrefix, NutritionAlert)
  /\ HasEntry(HighPrefix, DistressAlert)
  /\ HasEntry(MonitorPrefix, WeightAlert)

\* the statement as the spec has it: the scenario's answers alone
C20_ScenarioAsGiven == report # NoReport /\ ScenarioAnswered => ScenarioReport

(* C20: for the scenario (name "John", pain "Yes" with severity "8", mouth
   "Yes" with dry, sores and taste "Yes", diet "liquid only", weight "lost 8
   pounds in 2 weeks", mood "Quite sad") together with a positive answer to
   the swallowing presence question, the report has the PAIN block with
   severity 8/10, the MOUTH block, the SWALLOWING block showing "liquid
   only", the severe-pain, nutritional-consult and psychosocial-referral
   entries under HIGH PRIORITY and a weight-loss entry under MONITOR. *)
C20_ScenarioWithSwallowing ==
  report # NoReport /\ ScenarioAnswered /\ Positive("swallow_present") => ScenarioReport

\* the report of the scenario with swallowing difficulty answered "Yes"
C20_Witness ==
  /\ report # NoReport
  /\ symptoms = Merge([swallow_present |-> "Yes"], Scenario)
  /\ ScenarioReport

-----------------------------------------------------------------------------
(* The flow as a graph of `next` pointers *)

Referenced == {FLOW[i].next : i \in 1..Len(FLOW)}
Terminals == {i \in 1..Len(FLOW) : FLOW[i].next = None}
Starts == {i \in 1..Len(FLOW) : FLOW[i].id \notin Referenced}

\* following `next` from id, ignoring the conds, ends at None within fuel hops
RECURSIVE ChainEnds(_, _)
ChainEnds(id, fuel) ==
  IF id = None THEN TRUE
  ELSE IF fuel = 0 \/ id \notin StepIds THEN FALSE
  ELSE ChainEnds(get_step(id).next, fuel - 1)

DistinctIds ==
  \A i, j \in 1..Len(FLOW) : i # j => FLOW[i].id # FLOW[j].id

FlowWellFormed ==
  /\ DistinctIds
  /\ Referenced \subseteq StepIds \cup {None}
  /\ Terminals = {IndexOf("done")}
  /\ Starts = {IndexOf("welcome")}
  /\ \A id \in StepIds : ChainEnds(id, Len(FLOW))

(* C21: the flow built by make_flow is well formed: the step ids are pairwise
   distinct, every `next` is the id of an existing step or None, "done" is the
   only step with next = None, "welcome" is the only step no `next` refers
   to, and following `next` from any step (the current one included) ends at
   the terminal step within as many hops as there are steps, so the graph has
   no cycle. *)
C21_FlowWellFormed ==
  /\ FlowWellFormed
  /\ current_step \in StepIds
  /\ ChainEnds(current_step, Len(FLOW))

\* a session that followed the pointers from the start to the sink
C21_Witness ==
  /\ conversation_done
  /\ current_step = "done"
  /\ get_step(current_step).next = None
  /\ "welcome" \notin Referenced

-----------------------------------------------------------------------------
(* The {name} placeholder *)

NameTag == "{name}"
HasTag(text) == \E j \in 1..Len(text) : text[j] = NameTag
StoredName == Get(symptoms, "patient_name", "")

\* the prompt of some step with its placeholder replaced by the stored name,
\* the name being stored when the prompt has a placeholder
FilledPrompt(text) ==
  \E j \in 1..Len(FLOW) :
    /\ text = Replace(FLOW[j].msg, StoredName)
    /\ HasTag(FLOW[j].msg) => Has("patient_name")

\* the original statement of C22: no transcript entry holds the literal text
C22_NoLiteralPlaceholder ==
  \A i \in 1..Len(messages) : ~HasTag(messages[i].text)

(* C22: every prompt in the transcript is the prompt of a step with each
   {name} placeholder replaced by the stored patient_name, which is stored
   before any prompt with a placeholder is pushed; the literal text "{name}"
   is in a transcript entry only when the respondent typed it: in a prompt
   only when it is the stored name, in a respondent entry only as a stored
   answer. *)
C22_PlaceholderFilled ==
  /\ \A i \in BotIndexes :
       /\ FilledPrompt(messages[i].text)
       /\ HasTag(messages[i].text) => Has("patient_name") /\ StoredName = NameTag
  /\ \A i \in UserIndexes :
       HasTag(messages[i].text) =>
         \E k \in DOMAIN symptoms : messages[i].text = <<symptoms[k]>>

\* a completed session named John: both prompts with a placeholder were pushed
C22_Witness ==
  /\ conversation_done
  /\ StoredName = "John"
  /\ \E i \in BotIndexes : messages[i].text = Replace(get_step("intro2").msg, "John")
  /\ \E i \in BotIndexes : messages[i].text = Replace(get_step("done").msg, "John")
  /\ HasTag(get_step("intro2").msg) /\ HasTag(get_step("done").msg)

-----------------------------------------------------------------------------
(* The yes/no classifier on given texts *)

\* texts with a yes or intensity word, some with a no-word too, some in
\* upper case or padded
YesTexts ==
  {"Yes", "Yes, a lot", "A little", "No, not very often", "  YES  ",
   "Yes, noticeably", "Soft foods only", "Very poor", "Yes please",
   "On and off", "Quite sad", "Some trouble sleeping"}
\* texts without one, the empty and the blank text among them
NoTexts ==
  {"No", "", "   ", "  No  ", "Nope", "Not really", "Not sure", "No change",
   "Sometimes", "Reduced", "No appetite at all", "No, I need more support",
   "twelve"}

\* the lowercased, trimmed text is some prefix, a word of the list, some suffix
HoldsYesWord(t) ==
  LET v == strip(lower(CharsOf(t)))
  IN \E i \in 1..Len(YesWords) : \E a \in 0..Len(v) :
       LET w == CharsOf(YesWords[i])
       IN /\ a + Len(w) <= Len(v)
          /\ v = SubSeq(v, 1, a) \o w \o SubSeq(v, a + Len(w) + 1, Len(v))

GivenTextsClassified ==
  /\ \A t \in YesTexts : _yes(t) /\ HoldsYesWord(t)
  /\ \A t \in NoTexts : ~_yes(t) /\ ~HoldsYesWord(t)
  /\ ~_yes(None)

(* C23: _yes is true exactly when the lowercased, trimmed text contains one of
   the fixed yes and intensity words: "No" is not positive, "Yes, a lot" is,
   the empty text, the blank text and no text at all never are, a text with
   both a no-word and a yes or intensity word is positive, and every stored
   answer is classified by whether it holds a word of the list. *)
C23_YesClassifier ==
  /\ GivenTextsClassified
  /\ \A k \in DOMAIN symptoms : _yes(symptoms[k]) <=> HoldsYesWord(symptoms[k])

\* a session that stored a positive and a negative presence answer
C23_Witness ==
  /\ op = "answer"
  /\ Has("pain_present") /\ symptoms["pain_present"] = "Yes"
  /\ _yes(symptoms["pain_present"])
  /\ Has("mouth_present") /\ symptoms["mouth_present"] = "No"
  /\ ~_yes(symptoms["mouth_present"])

-----------------------------------------------------------------------------
(* Two sessions *)

PeerOps == {"peer_kick_off", "peer_answer", "peer_reset"}
MainState == <<symptoms, messages, current_step, conversation_done, report>>

(* C24: two sessions running interleaved share no mutable state: a kick-off,
   an advance or a reset in the second session leaves the first session's
   answer set, transcript, current step, completion flag and report as they
   were, and one in the first session leaves those of the second. *)
C24_SessionsIsolated ==
  [][/\ op' \in PeerOps => UNCHANGED MainState
     /\ op' \notin PeerOps => UNCHANGED other]_vars

\* both sessions are under way, with different answers to the same question
C24_Witness ==
  /\ Has("pain_present") /\ symptoms["pain_present"] = "A little"
  /\ "pain_present" \in DOMAIN other.symptoms
  /\ other.symptoms["pain_present"] = "No"
  /\ other.current_step # current_step
  /\ op \in PeerOps

-----------------------------------------------------------------------------
(* C25: the nutritional-consult entry is in neither alert list of the report
   when the swallowing-diet answer is "Regular food", "Soft foods only" or
   "Pureed foods", nor when no diet answer was collected. *)
C25_NoConsultForOtherDiets ==
  /\ report # NoReport
  /\ \/ ~Has("swallow_diet")
     \/ symptoms["swallow_diet"] \in {"Regular food", "Soft foods only", "Pureed foods"}
  => /\ ~HasEntry(HighPrefix, NutritionAlert)
     /\ ~HasEntry(MonitorPrefix, NutritionAlert)

-----------------------------------------------------------------------------
(* Conditional follow-ups *)

\* the prompt of step id is in the transcript
Asked(id) ==
  \E i \in BotIndexes : messages[i].text = Replace(get_step(id).msg, StoredName)
Past(id) == Pos(current_step) > Pos(id)

\* the step after the fatigue rating, for each button of the scale
FatigueBranch ==
  \A n \in 0..ScaleMax :
    next_step_id("fatigue_q1", [fatigue_level |-> StrOfInt(n)]) =
      IF n >= 4 THEN "fatigue_impact" ELSE "mood_q1"

(* C26: the fatigue-impact follow-up is asked, and its answer stored, exactly
   when the collected fatigue level is 4 or higher (asked for 4, skipped for
   3 and for 0); when it is skipped the question after the fatigue rating is
   the mood question. *)
C26_FatigueFollowUp ==
  /\ FatigueBranch
  /\ Asked("fatigue_impact") <=> FatigueAtLeast(4)
  /\ Has("fatigue_impact") => FatigueAtLeast(4)
  /\ FatigueAtLeast(4) /\ Past("fatigue_impact") => Has("fatigue_impact")
  /\ Has("fatigue_level") /\ ~FatigueAtLeast(4) /\ ~Has("mood_general") =>
       current_step = "mood_q1" /\ Asked("mood_q1")

\* the level 4 was given and the follow-up was asked and answered
C26_Witness ==
  /\ Has("fatigue_level") /\ symptoms["fatigue_level"] = "4"
  /\ Asked("fatigue_impact")
  /\ Has("fatigue_impact")
  /\ Past("fatigue_impact")

-----------------------------------------------------------------------------
\* the stored weight-change answer speaks of weight lost
WeightLost == InLower("lost", Get(symptoms, "nutrition_weight", ""))

(* C27: the weight-amount follow-up is asked, and its answer stored, exactly
   when the weight-change answer contains "lost"; so in the report of a
   completed session every weight-loss entry of the MONITOR list carries the
   collected amount, never "amount not specified". *)
C27_WeightAmountFollowUp ==
  /\ Asked("nutrition_weight_amt") <=> WeightLost
  /\ Has("nutrition_weight_amt") => WeightLost
  /\ WeightLost /\ Past("nutrition_weight_amt") =>
       Has("nutrition_weight_amt") /\ Truthy(symptoms["nutrition_weight_amt"])
  /\ conversation_done =>
       /\ WeightLost <=> WeightEntries(MonitorPrefix) # {}
       /\ \A i \in WeightEntries(MonitorPrefix) :
            /\ Has("nutrition_weight_amt")
            /\ report[i][3] = symptoms["nutrition_weight_amt"]
            /\ report[i][3] # "amount not specified"

\* a completed session that reported weight lost, with the amount in the entry
C27_Witness ==
  /\ conversation_done
  /\ WeightLost
  /\ Asked("nutrition_weight_amt")
  /\ \E i \in WeightEntries(MonitorPrefix) : report[i][3] = "8 pounds in 2 weeks"

-----------------------------------------------------------------------------
\* the state a first run leaves: the welcome message and the name question
JustKickedOff ==
  /\ symptoms = EmptyDict
  /\ Len(messages) = 2
  /\ messages[1].role = "bot" /\ messages[1].text = get_step("welcome").msg
  /\ messages[2].role = "bot" /\ messages[2].text = get_step("name").msg
  /\ current_step = "name"
  /\ ~conversation_done
  /\ report = NoReport

(* C28: Start Over and New Session, from any state they are offered in, leave
   the state the kick-off of a new session leaves: an empty answer set, a
   transcript of the welcome message and the name question, the current step
   "name", the completion flag false and no report. *)
C28_ResetIsFresh ==
  op \in {"kick_off", "start_over", "new_session"} => JustKickedOff

\* a completed session was reset with New Session
C28_Witness ==
  /\ op = "new_session"
  /\ JustKickedOff
  /\ awaiting_input

-----------------------------------------------------------------------------
\* entry i is the respondent's answer to the prompt right before it: that
\* prompt is the prompt of a step with a key, and the entry is what is stored
\* under the key
AnswersPromptBefore(i) ==
  /\ i > 1
  /\ messages[i - 1].role = "bot"
  /\ \E j \in 1..Len(FLOW) :
       /\ FLOW[j].type # "info"
       /\ Truthy(FLOW[j].key)
       /\ messages[i - 1].text = Replace(FLOW[j].msg, StoredName)
       /\ Has(FLOW[j].key)
       /\ messages[i].text = <<symptoms[FLOW[j].key]>>

(* C29: the transcript is turn-based: every respondent entry comes right
   after the prompt of the step under whose key it was stored, no prompt is
   followed by two respondent entries, and there are as many respondent
   entries as keys in the answer set. *)
C29_TurnBased ==
  /\ \A i \in UserIndexes : AnswersPromptBefore(i)
  /\ \A i \in UserIndexes : (i + 1) \notin UserIndexes
  /\ Cardinality(UserIndexes) = Cardinality(DOMAIN symptoms)

\* a completed session: several turns, the pain follow-ups among them
C29_Witness ==
  /\ conversation_done
  /\ Has("pain_location")
  /\ Cardinality(UserIndexes) > 20
  /\ Cardinality(UserIndexes) = Cardinality(DOMAIN symptoms)

-----------------------------------------------------------------------------
\* the current step asks for an answer: it is no info step and has a key
AnswerRequiring ==
  /\ current_step \in StepIds
  /\ get_step(current_step).type # "info"
  /\ Truthy(get_step(current_step).key)

(* C30: after the kick-off and after every top-level advance call, either the
   session is complete or the current step is an answer-requiring step (not
   an info step, and with a key). *)
C30_RestsOnQuestion ==
  op # "init_state" => conversation_done \/ AnswerRequiring

\* an answer took the session over an info step to the next question
C30_Witness ==
  /\ op = "answer"
  /\ current_step = "pain_q1"
  /\ Asked("intro2")
  /\ AnswerRequiring /\ ~conversation_done

-----------------------------------------------------------------------------
(* C31: in every reachable state the report exists exactly when the session
   is complete, and it is the report generated from the final answer set (at
   some reading of the clock); and once the answer to the last question is
   stored, the closing message is in the transcript and the session is
   complete, the call that stored it having done both. *)
C31_ReportIffComplete ==
  /\ report # NoReport <=> conversation_done
  /\ conversation_done =>
       \E now \in 0..MaxClock : report = generate_report(symptoms, now)
  /\ Has("additional_notes") =>
       /\ conversation_done
       /\ current_step = "done"
       /\ Asked("done")
       /\ LastMessage.text = Replace(get_step("done").msg, StoredName)

-----------------------------------------------------------------------------
\* the keys of the steps that have a key and no cond
UnconditionalKeys ==
  {FLOW[i].key : i \in {j \in 1..Len(FLOW) : Truthy(FLOW[j].key) /\ FLOW[j].cond = ""}}

\* the steps before the current one that ask for an answer
PassedQuestions ==
  {i \in 1..Len(FLOW) : /\ i < Pos(current_step)
                        /\ FLOW[i].type # "info"
                        /\ Truthy(FLOW[i].key)}

(* C32: a session completes only after every unconditional question was
   answered: whenever conversation_done is true the answer set holds the key
   of every step that has a key and no cond (patient_name, the four presence
   keys, the nutrition, fatigue_level, mood and other-symptom keys and
   additional_notes); and no answer-requiring step whose cond is absent or
   true lies before the current step without an answer. *)
C32_NoQuestionPassed ==
  /\ UnconditionalKeys =
       {"patient_name", "pain_present", "mouth_present", "swallow_present",
        "breathing_present", "nutrition_appetite", "nutrition_weight",
        "nutrition_nausea", "nutrition_supplements", "fatigue_level",
        "mood_general", "mood_anxiety", "mood_sleep", "mood_support",
        "other_cough", "other_skin", "other_concentration", "additional_notes"}
  /\ conversation_done => UnconditionalKeys \subseteq DOMAIN symptoms
  /\ \A i \in PassedQuestions :
       FLOW[i].cond = "" \/ CondHolds(FLOW[i], symptoms) => Has(FLOW[i].key)

\* a completed session that skipped the pain follow-ups and answered the rest
C32_Witness ==
  /\ conversation_done
  /\ UnconditionalKeys \subseteq DOMAIN symptoms
  /\ ~Has("pain_severity") /\ ~Positive("pain_present")
  /\ Has("mouth_dry")

-----------------------------------------------------------------------------
\* the report has the alert in one of its two lists
Alerted(text) == HasEntry(HighPrefix, text) \/ HasEntry(MonitorPrefix, text)
PainAlerted == PainEntries(HighPrefix) \cup PainEntries(MonitorPrefix) # {}

(* C33: in the report of every completed session the alerts agree with the
   PRESENT blocks: a pain alert (in either list) appears only if the PAIN
   block is rendered, the nutritional-consult alert only if the SWALLOWING
   block is rendered, and the breathing alert exactly when the BREATHING
   block is rendered. *)
C33_AlertsAgreeWithBlocks ==
  conversation_done /\ report # NoReport =>
    /\ PainAlerted => LineIndexes(PainHeader) # {}
    /\ Alerted(NutritionAlert) => LineIndexes(SwallowHeader) # {}
    /\ Alerted(BreathingAlert) <=> LineIndexes(BreathingHeader) # {}

\* a completed session with a pain alert, the consult alert and the breathing
\* alert, and the three blocks
C33_Witness ==
  /\ conversation_done /\ report # NoReport
  /\ PainAlerted /\ LineIndexes(PainHeader) # {}
  /\ Alerted(NutritionAlert) /\ LineIndexes(SwallowHeader) # {}
  /\ Alerted(BreathingAlert) /\ LineIndexes(BreathingHeader) # {}
=============================================================================
